---- MODULE Spec2Model ----
(***************************************************************************)
(* One round of Goita as implemented by goita_ai2/state.py (GoitaState).   *)
(* Tiles are the ranks 1..9 (the source uses the strings "1".."9"), seats  *)
(* are "A".."D".  Every mutator is an operator from the round, as a        *)
(* record of its fields, to the round after the call; the field raised     *)
(* tells whether the call ended in ValueError.  The actions of Spec are    *)
(* calls of the four mutators by any seat with any arguments.              *)
(***************************************************************************)
EXTENDS Integers, Sequences, FiniteSets, TLC

VARIABLES hands, had_both_kings, face_down_hidden, current_attack, attacker,
          phase, turn, last_block, last_block_player, king_block_used,
          finished, winner, team_score, raised, moves, deal,
          agents, track, inbox, applied, driver, pc, req, lock, hits,
          attempt, last_hands, dealt, log, board, seat_token, join,
          before, doing, stage

vars == <<hands, had_both_kings, face_down_hidden, current_attack, attacker,
          phase, turn, last_block, last_block_player, king_block_used,
          finished, winner, team_score, raised, moves, deal,
          agents, track, inbox, applied, driver, pc, req, lock, hits,
          attempt, last_hands, dealt, log, board, seat_token, join,
          before, doing, stage>>

\* the fields of the round, with the counters of the exploration
rnd == <<hands, had_both_kings, face_down_hidden, current_attack, attacker,
         phase, turn, last_block, last_block_player, king_block_used,
         finished, winner, team_score, raised, moves, deal>>

\* the simulation and the step requests
plays == <<agents, track, inbox, applied, driver, pc, req, lock, hits>>

\* a move on its way through a mutator, assignment by assignment: the round
\* before the call, the seat and the move, the assignments made so far
writes == <<before, doing, stage>>

\* the variables of the making of a deal (create_random_hands_no_five_shi)
\* and of the joining of seats (join_game)
ext == <<attempt, last_hands, dealt, seat_token, join, writes>>

\* the log and the board snapshot of the game (GAMES[gid]["log"], ["board"])
shown == <<log, board>>

\* the variables of the drivers of a round (simulation, HTTP backend), and
\* of what surrounds it
drv == <<agents, track, inbox, applied, driver, pc, req, lock, hits, ext,
         shown>>

\* Number of deals the initial states are drawn from.
NumDeals == 3

\* Number of accepted calls a round is followed for.
MaxMoves == 6

\* accepted calls in a run of legal play; no round of the deals explored
\* lasts that long
MaxPlay == 24


Seats == {"A", "B", "C", "D"}
Tiles == 1 .. 9
\* Python None, for an optional tile and for an optional seat.
NoTile == 0
NoSeat == "None"

order == <<"A", "B", "C", "D">>

POINTS == [t \in Tiles |->
             CASE t \in {8, 9} -> 50
               [] t \in {6, 7} -> 40
               [] t \in {4, 5} -> 30
               [] t \in {2, 3} -> 20
               [] OTHER -> 10]

\* ---- list helpers (Python list semantics) ----
\* x in lst
Has(lst, x) == \E i \in 1 .. Len(lst) : lst[i] = x

\* lst.count(x)
Count(lst, x) == Cardinality({i \in 1 .. Len(lst) : lst[i] = x})

\* lst.remove(x): drops the first occurrence
Remove(lst, x) ==
  LET i == CHOOSE k \in 1 .. Len(lst) :
             lst[k] = x /\ \A j \in 1 .. k - 1 : lst[j] # x
  IN  [k \in 1 .. Len(lst) - 1 |-> IF k < i THEN lst[k] ELSE lst[k + 1]]

\* ---- deals ----
\* The deals explored: hands for A, B, C, D and the dealer.  They are
\* scaled-down deals, two or four tiles a seat instead of eight, that keep
\* the multiplicities of the deck (one 9, one 8, at most four 5s, four 4s,
\* four 3s, four 2s, ten 1s).
Deals ==
  << [hands |-> << <<9, 8, 3, 1>>, <<3, 3, 1, 5>>,
                   <<1, 2, 5, 5>>, <<5, 1, 4, 4>> >>,
      dealer |-> "A"],
     [hands |-> << <<3, 9>>, <<3, 3>>, <<1, 8>>, <<3, 1>> >>,
      dealer |-> "B"],
     [hands |-> << <<3, 3, 1, 1>>, <<3, 3, 1, 1>>,
                   <<9, 1, 1, 1>>, <<8, 1, 1, 1>> >>,
      dealer |-> "B"],
     [hands |-> << <<9, 8>>, <<5, 5>>, <<1, 2>>, <<5, 1>> >>,
      dealer |-> "A"],
     [hands |-> << <<8, 1>>, <<1, 1>>, <<2, 1>>, <<9, 2>> >>,
      dealer |-> "C"],
     [hands |-> << <<5, 5>>, <<5, 9>>, <<7, 8>>, <<5, 7>> >>,
      dealer |-> "D"] >>

\* the hands argument of the constructor for the n-th deal
HandsOf(n) ==
  [p \in Seats |-> Deals[n].hands[CHOOSE k \in 1 .. 4 : order[k] = p]]

\* tiles dealt in the n-th deal (32 in a full deal)
DeckSize(n) == 4 * Len(Deals[n].hands[1])

\* ---- the round as a record ----
State ==
  [hands |-> hands, had_both_kings |-> had_both_kings,
   face_down_hidden |-> face_down_hidden, current_attack |-> current_attack,
   attacker |-> attacker, phase |-> phase, turn |-> turn,
   last_block |-> last_block, last_block_player |-> last_block_player,
   king_block_used |-> king_block_used, finished |-> finished,
   winner |-> winner, team_score |-> team_score, raised |-> raised]

\* GoitaState.__init__
NewRound(h, dealer) ==
  [hands |-> h,
   had_both_kings |-> [p \in Seats |-> Has(h[p], 8) /\ Has(h[p], 9)],
   face_down_hidden |-> [p \in Seats |-> <<>>],
   current_attack |-> NoTile, attacker |-> NoSeat,
   phase |-> "attack", turn |-> dealer,
   last_block |-> NoTile, last_block_player |-> NoSeat,
   king_block_used |-> 0, finished |-> FALSE, winner |-> NoSeat,
   team_score |-> [t \in {"AC", "BD"} |-> 0],
   raised |-> FALSE]

\* raise ValueError(...): the call ends, nothing assigned after this point
Raise(s) == [s EXCEPT !.raised = TRUE]

\* position of a seat in the playing order
SeatIndex(p) == CHOOSE k \in 1 .. 4 : order[k] = p

next_player(p) ==
  LET i == CHOOSE k \in 1 .. 4 : order[k] = p
  IN  order[(i % 4) + 1]

\* variant of can_receive in which a king answers every attack
can_receive_any_king(s, player, block) ==
  IF s.current_attack = NoTile THEN FALSE
  ELSE IF block \in {8, 9} THEN TRUE
  ELSE block = s.current_attack

can_receive(s, player, block) ==
  IF s.current_attack = NoTile THEN FALSE
  ELSE IF block \in {8, 9} THEN s.current_attack \notin {1, 2}
  ELSE block = s.current_attack

\* variant of _can_attack_without_block without the last-tile exception
_can_attack_without_block_strict(s, player, attack) ==
  LET hand == s.hands[player]
  IN  IF ~Has(hand, attack) THEN FALSE
      ELSE IF attack \in 1 .. 7 THEN TRUE
      ELSE IF attack \in {8, 9}
        THEN s.had_both_kings[player] \/ s.king_block_used > 0
      ELSE FALSE

_can_attack_without_block(s, player, attack) ==
  LET hand == s.hands[player]
  IN  IF ~Has(hand, attack) THEN FALSE
      ELSE IF attack \in 1 .. 7 THEN TRUE
      ELSE IF attack \in {8, 9}
        THEN s.had_both_kings[player] \/ s.king_block_used > 0 \/ Len(hand) = 1
      ELSE FALSE

\* variant of _can_attack_with_block that looks for both kings in the hand
\* as it is now instead of the hand as dealt
_can_attack_with_block_now(s, player, block, attack) ==
  LET hand == s.hands[player]
  IN  IF ~Has(hand, block) \/ ~Has(hand, attack) THEN FALSE
      ELSE IF block = attack /\ Count(hand, block) < 2 THEN FALSE
      ELSE IF attack \in 1 .. 7 THEN TRUE
      ELSE IF attack \in {8, 9}
        THEN \/ Has(hand, 8) /\ Has(hand, 9)
             \/ s.king_block_used > 0
             \/ Len(hand) = 2
      ELSE FALSE

_can_attack_with_block(s, player, block, attack) ==
  LET hand == s.hands[player]
  IN  IF ~Has(hand, block) \/ ~Has(hand, attack) THEN FALSE
      ELSE IF block = attack /\ Count(hand, block) < 2 THEN FALSE
      ELSE IF attack \in 1 .. 7 THEN TRUE
      ELSE IF attack \in {8, 9}
        THEN s.had_both_kings[player] \/ s.king_block_used > 0 \/ Len(hand) = 2
      ELSE FALSE

\* variant of calculate_score that never doubles
calculate_score_single(s, player, attack) ==
  LET hidden == s.face_down_hidden[player]
      base == IF Len(hidden) > 0 /\ {hidden[Len(hidden)], attack} = {8, 9}
                THEN 100 ELSE POINTS[attack]
      team == IF player \in {"A", "C"} THEN "AC" ELSE "BD"
  IN  <<base, team>>

\* variant of calculate_score without the paired-king score
calculate_score_no_pair(s, player, attack) ==
  LET is_double == s.last_block_player = player /\ s.last_block = attack
      score == POINTS[attack] * (IF is_double THEN 2 ELSE 1)
      team == IF player \in {"A", "C"} THEN "AC" ELSE "BD"
  IN  <<score, team>>

\* returns <<score, team>>
calculate_score(s, player, attack) ==
  LET hidden == s.face_down_hidden[player]
      base == IF Len(hidden) > 0 /\ {hidden[Len(hidden)], attack} = {8, 9}
                THEN 100 ELSE POINTS[attack]
      is_double == s.last_block_player = player /\ s.last_block = attack
      score == base * (IF is_double THEN 2 ELSE 1)
      team == IF player \in {"A", "C"} THEN "AC" ELSE "BD"
  IN  <<score, team>>

\* variant of finish_round that credits the score to both teams
finish_round_both(s, player, attack) ==
  LET st == calculate_score(s, player, attack)
  IN  [s EXCEPT !.finished = TRUE, !.winner = player,
                !.team_score = [t \in {"AC", "BD"} |-> @[t] + st[1]]]

finish_round(s, player, attack) ==
  LET st == calculate_score(s, player, attack)
  IN  [s EXCEPT !.finished = TRUE, !.winner = player,
                !.team_score[st[2]] = @ + st[1]]

\* variant of apply_receive that counts every block, king or not
apply_receive_count_all(s, player, block) ==
  IF s.phase # "receive" THEN Raise(s)
  ELSE IF player # s.turn THEN Raise(s)
  ELSE IF ~can_receive(s, player, block) THEN Raise(s)
  ELSE IF ~Has(s.hands[player], block) THEN Raise(s)
  ELSE [s EXCEPT !.hands[player] = Remove(@, block),
                 !.king_block_used = @ + 1,
                 !.current_attack = NoTile,
                 !.attacker = player,
                 !.phase = "attack",
                 !.turn = player,
                 !.raised = FALSE]

\* variant of apply_receive that records the block tile as the last cover
apply_receive_marks_block(s, player, block) ==
  IF s.phase # "receive" THEN Raise(s)
  ELSE IF player # s.turn THEN Raise(s)
  ELSE IF ~can_receive(s, player, block) THEN Raise(s)
  ELSE IF ~Has(s.hands[player], block) THEN Raise(s)
  ELSE [s EXCEPT !.hands[player] = Remove(@, block),
                 !.king_block_used = IF block \in {8, 9} THEN @ + 1 ELSE @,
                 !.current_attack = NoTile,
                 !.attacker = player,
                 !.phase = "attack",
                 !.turn = player,
                 !.last_block = block,
                 !.last_block_player = player,
                 !.raised = FALSE]

\* variant of apply_receive that leaves the attacker who was answered in place
apply_receive_same_attacker(s, player, block) ==
  IF s.phase # "receive" THEN Raise(s)
  ELSE IF player # s.turn THEN Raise(s)
  ELSE IF ~can_receive(s, player, block) THEN Raise(s)
  ELSE IF ~Has(s.hands[player], block) THEN Raise(s)
  ELSE [s EXCEPT !.hands[player] = Remove(@, block),
                 !.king_block_used = IF block \in {8, 9} THEN @ + 1 ELSE @,
                 !.current_attack = NoTile,
                 !.phase = "attack",
                 !.turn = player,
                 !.raised = FALSE]

\* variant of apply_receive that leaves the block tile in the hand
apply_receive_keep(s, player, block) ==
  IF s.phase # "receive" THEN Raise(s)
  ELSE IF player # s.turn THEN Raise(s)
  ELSE IF ~can_receive(s, player, block) THEN Raise(s)
  ELSE IF ~Has(s.hands[player], block) THEN Raise(s)
  ELSE [s EXCEPT !.king_block_used = IF block \in {8, 9} THEN @ + 1 ELSE @,
                 !.current_attack = NoTile,
                 !.attacker = player,
                 !.phase = "attack",
                 !.turn = player,
                 !.raised = FALSE]

apply_receive(s, player, block) ==
  IF s.phase # "receive" THEN Raise(s)
  ELSE IF player # s.turn THEN Raise(s)
  ELSE IF ~can_receive(s, player, block) THEN Raise(s)
  ELSE IF ~Has(s.hands[player], block) THEN Raise(s)
  ELSE [s EXCEPT !.hands[player] = Remove(@, block),
                 !.king_block_used = IF block \in {8, 9} THEN @ + 1 ELSE @,
                 !.current_attack = NoTile,
                 !.attacker = player,
                 !.phase = "attack",
                 !.turn = player,
                 !.raised = FALSE]

\* variant of apply_pass without the turn check
apply_pass_any(s, player) ==
  IF s.phase # "receive" THEN Raise(s)
  ELSE LET next_p == next_player(player)
       IN  IF s.attacker = NoSeat \/ next_p # s.attacker
             THEN [s EXCEPT !.turn = next_p, !.raised = FALSE]
             ELSE [s EXCEPT !.turn = s.attacker, !.phase = "attack",
                            !.raised = FALSE]

\* variant of apply_pass that leaves the turn with the seat that passed
apply_pass_stay(s, player) ==
  IF s.phase # "receive" THEN Raise(s)
  ELSE IF player # s.turn THEN Raise(s)
  ELSE [s EXCEPT !.raised = FALSE]

\* variant of apply_pass that hands the turn on without the return to the
\* attacker
apply_pass_no_wrap(s, player) ==
  IF s.phase # "receive" THEN Raise(s)
  ELSE IF player # s.turn THEN Raise(s)
  ELSE [s EXCEPT !.turn = next_player(player), !.raised = FALSE]

apply_pass(s, player) ==
  IF s.phase # "receive" THEN Raise(s)
  ELSE IF player # s.turn THEN Raise(s)
  ELSE LET next_p == next_player(player)
       IN  IF s.attacker = NoSeat \/ next_p # s.attacker
             THEN [s EXCEPT !.turn = next_p, !.raised = FALSE]
             ELSE [s EXCEPT !.turn = s.attacker, !.phase = "attack",
                            !.raised = FALSE]

\* variant of apply_attack that leaves attacker as it was
apply_attack_keep_attacker(s, player, attack) ==
  IF s.phase # "attack" THEN Raise(s)
  ELSE IF player # s.turn THEN Raise(s)
  ELSE IF ~Has(s.hands[player], attack) THEN Raise(s)
  ELSE IF ~_can_attack_without_block(s, player, attack) THEN Raise(s)
  ELSE LET s1 == [s EXCEPT !.hands[player] = Remove(@, attack),
                           !.current_attack = attack,
                           !.turn = next_player(player),
                           !.phase = "receive",
                           !.raised = FALSE]
       IN  IF Len(s1.hands[player]) = 0
             THEN finish_round(s1, player, attack) ELSE s1

\* variant of apply_attack that never finishes the round
apply_attack_no_finish(s, player, attack) ==
  IF s.phase # "attack" THEN Raise(s)
  ELSE IF player # s.turn THEN Raise(s)
  ELSE IF ~Has(s.hands[player], attack) THEN Raise(s)
  ELSE IF ~_can_attack_without_block(s, player, attack) THEN Raise(s)
  ELSE [s EXCEPT !.hands[player] = Remove(@, attack),
                 !.current_attack = attack,
                 !.attacker = player,
                 !.turn = next_player(player),
                 !.phase = "receive",
                 !.raised = FALSE]

apply_attack(s, player, attack) ==
  IF s.phase # "attack" THEN Raise(s)
  ELSE IF player # s.turn THEN Raise(s)
  ELSE IF ~Has(s.hands[player], attack) THEN Raise(s)
  ELSE IF ~_can_attack_without_block(s, player, attack) THEN Raise(s)
  ELSE LET s1 == [s EXCEPT !.hands[player] = Remove(@, attack),
                           !.current_attack = attack,
                           !.attacker = player,
                           !.turn = next_player(player),
                           !.phase = "receive",
                           !.raised = FALSE]
       IN  IF Len(s1.hands[player]) = 0
             THEN finish_round(s1, player, attack) ELSE s1

\* variant of apply_attack_after_block that conceals a copy of the cover
\* tile and leaves the tile in the hand
apply_attack_after_block_copy(s, player, block, attack) ==
  IF s.phase # "attack" THEN Raise(s)
  ELSE IF player # s.turn THEN Raise(s)
  ELSE IF ~Has(s.hands[player], block) \/ ~Has(s.hands[player], attack)
    THEN Raise(s)
  ELSE IF ~_can_attack_with_block(s, player, block, attack) THEN Raise(s)
  ELSE [s EXCEPT !.hands[player] = Remove(@, attack),
                 !.face_down_hidden[player] = Append(@, block),
                 !.last_block = block,
                 !.last_block_player = player,
                 !.current_attack = attack,
                 !.attacker = player,
                 !.turn = next_player(player),
                 !.phase = "receive",
                 !.raised = FALSE]

\* variant of apply_attack_after_block that conceals the cover tile before
\* it validates the attack tile
apply_attack_after_block_eager(s, player, block, attack) ==
  IF s.phase # "attack" THEN Raise(s)
  ELSE IF player # s.turn THEN Raise(s)
  ELSE IF ~Has(s.hands[player], block) THEN Raise(s)
  ELSE LET s1 == [s EXCEPT !.hands[player] = Remove(@, block),
                           !.face_down_hidden[player] = Append(@, block),
                           !.last_block = block,
                           !.last_block_player = player]
       IN  IF ~Has(s1.hands[player], attack) THEN Raise(s1)
           ELSE IF ~_can_attack_without_block(s1, player, attack)
             THEN Raise(s1)
           ELSE LET s2 == [s1 EXCEPT !.hands[player] = Remove(@, attack),
                                     !.current_attack = attack,
                                     !.attacker = player,
                                     !.turn = next_player(player),
                                     !.phase = "receive",
                                     !.raised = FALSE]
                IN  IF Len(s2.hands[player]) = 0
                      THEN finish_round(s2, player, attack) ELSE s2

apply_attack_after_block(s, player, block, attack) ==
  IF s.phase # "attack" THEN Raise(s)
  ELSE IF player # s.turn THEN Raise(s)
  ELSE IF ~Has(s.hands[player], block) \/ ~Has(s.hands[player], attack)
    THEN Raise(s)
  ELSE IF ~_can_attack_with_block(s, player, block, attack) THEN Raise(s)
  ELSE LET s1 == [s EXCEPT !.hands[player] = Remove(@, block),
                           !.face_down_hidden[player] = Append(@, block),
                           !.last_block = block,
                           !.last_block_player = player]
           s2 == [s1 EXCEPT !.hands[player] = Remove(@, attack),
                            !.current_attack = attack,
                            !.attacker = player,
                            !.turn = next_player(player),
                            !.phase = "receive",
                            !.raised = FALSE]
       IN  IF Len(s2.hands[player]) = 0
             THEN finish_round(s2, player, attack) ELSE s2

\* ---- legal move enumeration ----
\* an action is the tuple <<action_type, block, attack>>
\* variant of sorted_set: the distinct ranks in the order the hand holds them
hand_order_set(hand) ==
  LET f[i \in 0 .. Len(hand)] ==
        IF i = 0 THEN <<>>
        ELSE IF Has(f[i - 1], hand[i]) THEN f[i - 1]
        ELSE Append(f[i - 1], hand[i])
  IN  f[Len(hand)]

\* sorted(set(hand))
sorted_set(hand) ==
  SelectSeq([t \in 1 .. 9 |-> t], LAMBDA t : Has(hand, t))

\* variant of ReceiveMoves that lists a receive for every tile of the hand
ReceiveMoves_per_tile(s, player) ==
  LET ok == SelectSeq(s.hands[player], LAMBDA b : can_receive(s, player, b))
  IN  [i \in 1 .. Len(ok) |-> <<"receive", ok[i], NoTile>>]

\* the receive branch: for block in sorted(set(hand)): if can_receive ...
ReceiveMoves(s, player) ==
  LET r == sorted_set(s.hands[player])
      ok == SelectSeq(r, LAMBDA b : can_receive(s, player, b))
  IN  [i \in 1 .. Len(ok) |-> <<"receive", ok[i], NoTile>>]

\* for attack in sorted(set(hand)): if _can_attack_without_block ...
AttackMoves(s, player) ==
  LET r == sorted_set(s.hands[player])
      ok == SelectSeq(r, LAMBDA a : _can_attack_without_block(s, player, a))
  IN  [i \in 1 .. Len(ok) |-> <<"attack", NoTile, ok[i]>>]

\* variant of CoverMoves that never pairs a rank with itself
CoverMoves_distinct(s, player) ==
  LET hand == s.hands[player]
      r == sorted_set(hand)
      inner(b) ==
        LET ok == SelectSeq(r, LAMBDA a :
                      /\ b # a
                      /\ _can_attack_with_block(s, player, b, a))
        IN  [i \in 1 .. Len(ok) |-> <<"attack_after_block", b, ok[i]>>]
      outer[i \in 0 .. Len(r)] ==
        IF i = 0 THEN <<>> ELSE outer[i - 1] \o inner(r[i])
  IN  outer[Len(r)]

\* the nested loop over block and attack, block outermost
CoverMoves(s, player) ==
  LET hand == s.hands[player]
      r == sorted_set(hand)
      inner(b) ==
        LET ok == SelectSeq(r, LAMBDA a :
                      /\ ~(b = a /\ Count(hand, b) < 2)
                      /\ _can_attack_with_block(s, player, b, a))
        IN  [i \in 1 .. Len(ok) |-> <<"attack_after_block", b, ok[i]>>]
      outer[i \in 0 .. Len(r)] ==
        IF i = 0 THEN <<>> ELSE outer[i - 1] \o inner(r[i])
  IN  outer[Len(r)]

\* variant of legal_actions that asks for a cover in every attack phase
legal_actions_always_cover(s, player) ==
  IF s.finished THEN <<>>
  ELSE IF s.phase = "receive"
    THEN IF s.current_attack = NoTile
           THEN << <<"pass", NoTile, NoTile>> >>
           ELSE << <<"pass", NoTile, NoTile>> >> \o ReceiveMoves(s, player)
  ELSE IF s.phase = "attack"
    THEN IF player # s.turn THEN <<>>
         ELSE CoverMoves(s, player)
  ELSE <<>>

legal_actions(s, player) ==
  IF s.finished THEN <<>>
  ELSE IF s.phase = "receive"
    THEN IF s.current_attack = NoTile
           THEN << <<"pass", NoTile, NoTile>> >>
           ELSE << <<"pass", NoTile, NoTile>> >> \o ReceiveMoves(s, player)
  ELSE IF s.phase = "attack"
    THEN IF player # s.turn THEN <<>>
         ELSE IF s.attacker = NoSeat /\ s.current_attack = NoTile
           THEN CoverMoves(s, player)
         ELSE IF s.current_attack = NoTile /\ s.attacker = player
           THEN AttackMoves(s, player)
         ELSE CoverMoves(s, player)
  ELSE <<>>

\* dispatch of an action tuple to the matching mutator
_apply_action(s, player, action) ==
  CASE action[1] = "pass" -> apply_pass(s, player)
    [] action[1] = "receive" ->
         IF action[2] = NoTile THEN Raise(s)
         ELSE apply_receive(s, player, action[2])
    [] action[1] = "attack" ->
         IF action[3] = NoTile THEN Raise(s)
         ELSE apply_attack(s, player, action[3])
    [] action[1] = "attack_after_block" ->
         IF action[2] = NoTile \/ action[3] = NoTile THEN Raise(s)
         ELSE apply_attack_after_block(s, player, action[2], action[3])
    [] OTHER -> Raise(s)

\* every well-formed action tuple with ranks 1-9
AllMoves ==
  { <<"pass", NoTile, NoTile>> }
    \cup { <<"receive", b, NoTile>> : b \in Tiles }
    \cup { <<"attack", NoTile, a>> : a \in Tiles }
    \cup { <<"attack_after_block", b, a>> : b \in Tiles, a \in Tiles }

\* the elements of a sequence
Range(seq) == { seq[i] : i \in 1 .. Len(seq) }

\* ---- the policy: goita_ai2/rule_based.py (RuleBasedAgent) ----
TARGET_X == {2, 3, 4, 5}
TARGET_LAST1 == {2, 3, 4, 5, 6, 7}

WIN_NOW_BONUS == 10000
WIN_AFTER_RECEIVE_BONUS == 9000
KING_ATTACK_PENALTY == 300
FIRST_ENEMY_RECEIVE_BONUS == 500
FIRST_ENEMY_PASS_BONUS == 500
LAST_ONE_BONUS == 65
FIRST_ENEMY_SHI_FORCE == 800
SHI_PLAN_MIN_TEAM_COUNT == 6
\* the scores -1e18 and 1e9 of the source, kept apart from every other score
MINUS_INF == -2000000000
PLUS_INF == 1000000000

\* self._track has no entry for the round yet
NoTrack == [has |-> FALSE]

_same_team(p1, p2) ==
  \/ p1 \in {"A", "C"} /\ p2 \in {"A", "C"}
  \/ p1 \in {"B", "D"} /\ p2 \in {"B", "D"}

_ally_of(me) ==
  IF me = "A" THEN "C" ELSE IF me = "C" THEN "A"
  ELSE IF me = "B" THEN "D" ELSE "B"

\* The tracker of the agent bound to seat me, created on the first call
\* from the hands the round has at that moment (_get_initial_hand takes
\* its snapshot then).
_ensure_trackers(tr, me, s) ==
  IF tr.has THEN tr
  ELSE
    LET init_hand == s.hands[me]
        ally_player == _ally_of(me)
        ally_init_hand == s.hands[ally_player]
        shi_team_total == Count(init_hand, 1) + Count(ally_init_hand, 1)
        my_init_count == [x \in TARGET_X |-> Count(init_hand, x)]
    IN  [has |-> TRUE,
         kakari |-> [x \in TARGET_X |->
                       IF my_init_count[x] = 4 THEN "STRONG"
                       ELSE "UNCERTAIN"],
         enemy_revealed |-> [x \in TARGET_X |-> FALSE],
         miss |-> [x \in TARGET_X |-> 0],
         supported |-> [x \in TARGET_X |-> FALSE],
         pending_axis |-> NoTile,
         pending_ally_received |-> [p \in Seats |-> NoTile],
         my_init_count |-> my_init_count,
         init_count_all |-> [t \in Tiles |-> Count(init_hand, t)],
         ally |-> ally_player,
         ally_axis_pending |-> NoTile,
         first_enemy_attack_seen |-> FALSE,
         first_enemy_attack_skipped |-> FALSE,
         public_seen_counts |-> [t \in Tiles |-> 0],
         shi_team_total |-> shi_team_total,
         shi_plan_eligible |-> shi_team_total >= SHI_PLAN_MIN_TEAM_COUNT,
         shi_plan_active |-> FALSE,
         shi_message_sent |-> FALSE,
         shi_chain_attacker |-> NoSeat,
         shi_chain_passed |-> FALSE,
         shi_chain_first_passer |-> NoSeat,
         my_attack_count |-> 0,
         kg_plan_active |-> Has(init_hand, 9) /\ Has(init_hand, 8),
         kg_second |-> NoTile]

_strong_initial_hand(tr) ==
  /\ tr.has
  /\ \/ \E x \in {2, 3, 4, 5} : tr.my_init_count[x] = 4
     \/ \E x \in {6, 7} : tr.init_count_all[x] = 2
     \/ \E x \in {2, 3, 4, 5} : tr.my_init_count[x] = 3

_last_one_remaining_bonus(tr, s, player, attack) ==
  IF attack = NoTile \/ attack \notin TARGET_LAST1 THEN 0
  ELSE IF ~tr.has THEN 0
  ELSE IF ~Has(s.hands[player], attack) THEN 0
  ELSE LET total == IF attack \in {2, 3, 4, 5} THEN 4 ELSE 2
           seen == tr.public_seen_counts[attack]
       IN  IF seen = total - 1 THEN LAST_ONE_BONUS ELSE 0

\* on_public_action, first part: the chain of 1s (an attack with 1, a pass
\* of a 1) and the tile that a receive shows
PublicBlock(tr, me, s, player, action) ==
  LET action_type == action[1]
      block == action[2]
      attack == action[3]
      isAtk == action_type \in {"attack", "attack_after_block"}
      team == _same_team(player, me)
      t1 == IF isAtk /\ attack = 1
            THEN [tr EXCEPT
                    !.shi_chain_attacker = player,
                    !.shi_chain_passed = FALSE,
                    !.shi_chain_first_passer = NoSeat,
                    !.shi_plan_active =
                       IF tr.shi_plan_eligible /\ team THEN TRUE ELSE @,
                    !.shi_message_sent =
                       IF /\ action_type = "attack_after_block"
                          /\ block = 1
                          /\ tr.shi_plan_eligible
                          /\ team
                       THEN TRUE ELSE @]
            ELSE tr
      t2 == IF /\ action_type = "pass"
               /\ s.current_attack = 1
               /\ t1.shi_chain_attacker # NoSeat
               /\ t1.shi_chain_attacker # player
            THEN [t1 EXCEPT
                    !.shi_chain_passed = TRUE,
                    !.shi_chain_first_passer =
                       IF @ = NoSeat THEN player ELSE @]
            ELSE t1
      t3 == IF action_type = "receive" /\ block # NoTile
            THEN [t2 EXCEPT
                    !.public_seen_counts[block] = @ + 1,
                    !.enemy_revealed =
                       IF ~team /\ block \in TARGET_X
                       THEN [@ EXCEPT ![block] = TRUE] ELSE @,
                    !.pending_ally_received =
                       IF team /\ block \in TARGET_X
                       THEN [@ EXCEPT ![player] = block] ELSE @]
            ELSE t2
  IN  t3

\* on_public_action, second part: the tile that an attack shows, and what
\* the attack of the ally says about the pending tiles
PublicAttack(t3, me, player, action) ==
  LET action_type == action[1]
      attack == action[3]
      ally == t3.ally
      isAtk == action_type \in {"attack", "attack_after_block"}
      team == _same_team(player, me)
      a1 == [t3 EXCEPT
               !.public_seen_counts[attack] = @ + 1,
               !.enemy_revealed =
                  IF ~team /\ attack \in TARGET_X
                  THEN [@ EXCEPT ![attack] = TRUE] ELSE @,
               !.pending_axis =
                  IF player = me /\ attack \in TARGET_X THEN attack ELSE @]
      a2 == IF player = ally /\ attack \in TARGET_X
            THEN [a1 EXCEPT !.ally_axis_pending = attack] ELSE a1
      a3 == IF player = me /\ a2.ally_axis_pending = attack
            THEN [a2 EXCEPT !.ally_axis_pending = NoTile] ELSE a2
      pend_recv == a3.pending_ally_received[player]
      a4 == IF player = ally /\ pend_recv \in TARGET_X
            THEN [a3 EXCEPT
                    !.miss[pend_recv] =
                       IF attack # pend_recv THEN @ + 1 ELSE @,
                    !.pending_ally_received[player] = NoTile]
            ELSE a3
      x4 == a4.pending_axis
      a5 == IF player = ally /\ x4 \in TARGET_X
            THEN [a4 EXCEPT
                    !.supported[x4] = IF attack = x4 THEN TRUE ELSE @,
                    !.miss[x4] = IF attack = x4 THEN @ ELSE @ + 1,
                    !.pending_axis = NoTile]
            ELSE a4
  IN  IF isAtk /\ attack # NoTile THEN a5 ELSE t3

\* on_public_action, last part: the state of each target tile
PublicKakari(t4) ==
  LET threshold(x) == IF t4.my_init_count[x] = 2 THEN 1
                      ELSE IF t4.my_init_count[x] = 3 THEN 2 ELSE 999
  IN  [t4 EXCEPT
         !.kakari = [x \in TARGET_X |->
            IF t4.kakari[x] \in {"STRONG", "DEAD"} THEN t4.kakari[x]
            ELSE IF t4.supported[x] THEN "STRONG"
            ELSE IF t4.my_init_count[x] = 3 /\ t4.enemy_revealed[x]
              THEN "STRONG"
            ELSE IF ~t4.enemy_revealed[x] /\ t4.miss[x] >= threshold(x)
              THEN "DEAD"
            ELSE t4.kakari[x]]]

\* The tracker after the agent bound to seat me was told that player made
\* action; s is the round as it is after the move.  The round is only read
\* (current_attack).
on_public_action(tr0, me, s, player, action) ==
  PublicKakari(
    PublicAttack(
      PublicBlock(_ensure_trackers(tr0, me, s), me, s, player, action),
      me, player, action))

\* ---- look-ahead ----
\* A call that tries a move returns two rounds: s, the round the move was
\* applied to, and state, the round object that was passed in as it is
\* after the call.

\* variant that applies the move to the round passed in, without copying
_apply_action_on_copy_shared(state, player, action) ==
  LET r == _apply_action(state, player, action)
  IN  [s |-> r, state |-> IF r.raised THEN state ELSE r]

\* s = copy.deepcopy(state); the mutator is called on s
_apply_action_on_copy(state, player, action) ==
  [s |-> _apply_action(state, player, action), state |-> state]

\* the bonus of a trial move whose outcome is r
WinNowOf(r, player) ==
  [bonus |-> IF ~r.s.raised /\ r.s.finished /\ r.s.winner = player
             THEN WIN_NOW_BONUS ELSE 0,
   state |-> r.state]

_win_now_bonus(state, player, action) ==
  WinNowOf(_apply_action_on_copy(state, player, action), player)

\* for (nt, nb, na) in next_actions: the first attack that wins on a copy
\* of s ends the loop; i is the index of the next element
RECURSIVE WinsNext(_, _, _, _)
RECURSIVE WinsNextTried(_, _, _, _)
\* the rest of the loop after the trial of next_actions[i], whose outcome
\* is r2
WinsNextTried(r2, player, next_actions, i) ==
  IF ~r2.s.raised /\ r2.s.finished /\ r2.s.winner = player
  THEN TRUE
  ELSE WinsNext(r2.state, player, next_actions, i + 1)

WinsNext(s, player, next_actions, i) ==
  IF i > Len(next_actions) THEN FALSE
  ELSE IF next_actions[i][1] \notin {"attack", "attack_after_block"}
    THEN WinsNext(s, player, next_actions, i + 1)
  ELSE WinsNextTried(_apply_action_on_copy(s, player, next_actions[i]),
                     player, next_actions, i)

\* the bonus of a receive whose trial has the outcome r
WinAfterReceiveOf(r, player) ==
  IF r.s.raised THEN [bonus |-> 0, state |-> r.state]
  ELSE [bonus |-> IF WinsNext(r.s, player, legal_actions(r.s, player), 1)
                  THEN WIN_AFTER_RECEIVE_BONUS ELSE 0,
        state |-> r.state]

_win_after_receive_bonus(state, player, action) ==
  IF action[1] # "receive" \/ action[2] = NoTile
  THEN [bonus |-> 0, state |-> state]
  ELSE WinAfterReceiveOf(_apply_action_on_copy(state, player, action),
                         player)

\* ---- scores ----
_kakari_score(tr, attack) ==
  IF attack = NoTile \/ attack \notin TARGET_X THEN 0
  ELSE IF ~tr.has THEN 0
  ELSE IF tr.kakari[attack] = "STRONG" THEN 120
  ELSE IF tr.kakari[attack] = "DEAD" THEN -120
  ELSE IF tr.miss[attack] = 1 THEN -30
  ELSE 0

_occupancy_priority_bonus(tr, attack) ==
  IF ~tr.has THEN 0
  ELSE IF attack \in {2, 3, 4, 5} /\ tr.my_init_count[attack] = 4 THEN 80
  ELSE IF attack \in {6, 7} /\ tr.init_count_all[attack] = 2 THEN 70
  ELSE IF attack \in {2, 3, 4, 5} /\ tr.my_init_count[attack] = 3 THEN 55
  ELSE IF attack \in {2, 3, 4, 5} /\ tr.my_init_count[attack] = 2 THEN 35
  ELSE IF attack = 1 /\ tr.init_count_all[1] = 4 THEN 25
  ELSE IF attack = 1 /\ tr.init_count_all[1] = 3 THEN 10
  ELSE 0

penalty_table ==
  [t \in Tiles |->
     CASE t \in {8, 9} -> 10
       [] t \in {6, 7} -> 8
       [] t \in {4, 5} -> 6
       [] t \in {2, 3} -> 4
       [] OTHER -> 1]

\* the score of an attack and the round passed in after the call
_score_attack_phase(tr, state, player, action, has_non_king_attack_option) ==
  LET action_type == action[1]
      block == action[2]
      attack == action[3]
      w == _win_now_bonus(state, player, action)
  IN  IF attack = NoTile THEN [score |-> MINUS_INF, state |-> state]
      ELSE
        [score |->
           _kakari_score(tr, attack)
           + (IF /\ tr.has
                 /\ tr.ally_axis_pending \in TARGET_X
                 /\ attack = tr.ally_axis_pending
              THEN 90 ELSE 0)
           + _last_one_remaining_bonus(tr, state, player, attack)
           + _occupancy_priority_bonus(tr, attack)
           - (IF /\ state.attacker = NoSeat
                 /\ state.current_attack = NoTile
                 /\ attack = 1
              THEN 100 ELSE 0)
           - (IF attack \in {9, 8} /\ has_non_king_attack_option
              THEN KING_ATTACK_PENALTY ELSE 0)
           + POINTS[attack] \div 10
           - (IF action_type = "attack_after_block" /\ block # NoTile
              THEN penalty_table[block] ELSE 0)
           + w.bonus,
         state |-> w.state]

\* the score of a pass or a receive and the round passed in after the
\* call; w is what _win_after_receive_bonus returned for the action
ReceiveScoreOf(tr, state, player, action, w) ==
  LET action_type == action[1]
      block == action[2]
      teamAttack == /\ state.attacker # NoSeat
                    /\ _same_team(state.attacker, player)
      base == IF action_type = "pass" THEN 0
              ELSE IF block \in {8, 9} THEN 1 ELSE 5
      enemy_attack_turn ==
        /\ state.phase = "receive"
        /\ state.current_attack # NoTile
        /\ state.attacker # NoSeat
        /\ ~_same_team(state.attacker, player)
      ones == Count(state.hands[player], 1)
      strong == _strong_initial_hand(tr)
      is_receive_1 == action_type = "receive" /\ block = 1
      is_receive_not1 == action_type = "receive" /\ block # 1
      receiving_with_king == action_type = "receive" /\ block \in {8, 9}
      prefer_skip_once == ~strong \/ receiving_with_king
      general ==
        IF prefer_skip_once
        THEN IF ~tr.first_enemy_attack_skipped
             THEN base + (IF action_type = "pass"
                          THEN FIRST_ENEMY_PASS_BONUS
                          ELSE -FIRST_ENEMY_PASS_BONUS)
             ELSE base
        ELSE base + (IF action_type = "pass"
                     THEN -FIRST_ENEMY_RECEIVE_BONUS
                     ELSE FIRST_ENEMY_RECEIVE_BONUS)
      shi(force_on) ==
        base + (IF force_on THEN FIRST_ENEMY_SHI_FORCE
                ELSE -FIRST_ENEMY_SHI_FORCE)
      tracked ==
        IF enemy_attack_turn /\ ~tr.first_enemy_attack_seen
        THEN IF state.current_attack = 1
             THEN IF is_receive_not1 THEN MINUS_INF
                  ELSE IF ones >= 2 THEN shi(is_receive_1)
                  ELSE IF ones = 1
                    THEN IF strong THEN shi(is_receive_1)
                         ELSE IF ~tr.first_enemy_attack_skipped
                           THEN shi(action_type = "pass")
                         ELSE base
                  ELSE general
             ELSE general
        ELSE base
      rest == IF ~tr.has THEN base ELSE tracked
  IN  IF action_type = "pass" THEN [score |-> rest, state |-> state]
      ELSE IF action_type # "receive" \/ block = NoTile
        THEN [score |-> MINUS_INF, state |-> state]
      ELSE IF w.bonus > 0 THEN [score |-> PLUS_INF, state |-> w.state]
      ELSE IF teamAttack THEN [score |-> -100, state |-> w.state]
      ELSE [score |-> rest, state |-> w.state]

_score_receive_phase(tr, state, player, action) ==
  ReceiveScoreOf(tr, state, player, action,
                 _win_after_receive_bonus(state, player,
                                          <<action[1], action[2], NoTile>>))

_defender_can_receive_attack(defender_hand, attack) ==
  \/ Has(defender_hand, attack)
  \/ /\ attack \notin {1, 2}
     /\ Has(defender_hand, 8) \/ Has(defender_hand, 9)

\* the score of one element in a scoring loop of select_action: the loops
\* of the special stages score every candidate with _score_attack_phase,
\* the general loop (general = TRUE) scores by the type of the action; hnk
\* is the has_non_king_attack_option handed to _score_attack_phase
ScoreIn(tr, state, player, act, hnk, general) ==
  IF ~general \/ act[1] \in {"attack", "attack_after_block"}
  THEN _score_attack_phase(tr, state, player, act, hnk)
  ELSE _score_receive_phase(tr, state, player, act)

\* best = lst[0]; best_score = -1e18; for act in lst: sc = the score of
\* act; if sc > best_score: ...   The round passed in is handed from one
\* scoring call to the next; i is the index of the next element.
RECURSIVE BestLoop(_, _, _, _, _, _, _, _)
RECURSIVE BestScored(_, _, _, _, _, _, _, _)
\* the rest of the loop after lst[i] was scored r
BestScored(tr, player, hnk, general, r, lst, i, acc) ==
  IF r.score > acc.best_score
  THEN BestLoop(tr, player, hnk, general, r.state, lst, i + 1,
                [acc EXCEPT !.best = lst[i], !.best_score = r.score])
  ELSE BestLoop(tr, player, hnk, general, r.state, lst, i + 1, acc)

BestLoop(tr, player, hnk, general, state, lst, i, acc) ==
  IF i > Len(lst) THEN [acc EXCEPT !.state = state]
  ELSE BestScored(tr, player, hnk, general,
                  ScoreIn(tr, state, player, lst[i], hnk, general),
                  lst, i, acc)

BestOf(tr, player, hnk, general, state, lst) ==
  BestLoop(tr, player, hnk, general, state, lst, 1,
           [state |-> state, best |-> lst[1], best_score |-> MINUS_INF])

\* the action chosen, or <<>> for None
_best_unreceivable_attack_action(state, player, attack_actions) ==
  LET defender == next_player(player)
      defender_hand == state.hands[defender]
      cands == SelectSeq(attack_actions, LAMBDA act :
                  /\ act[3] # NoTile
                  /\ ~_defender_can_receive_attack(defender_hand, act[3]))
      non_king == SelectSeq(cands, LAMBDA x : x[3] \notin {8, 9})
      pool == IF non_king # <<>> THEN non_king ELSE cands
      key(act) == Count(state.hands[player], act[3]) * 100 + POINTS[act[3]]
  IN  IF cands = <<>> THEN <<>>
      ELSE Head(SelectSeq(pool, LAMBDA act :
                   \A i \in 1 .. Len(pool) : key(pool[i]) <= key(act)))

\* tr["my_attack_count"] += 1
CountAttack(tr) == [tr EXCEPT !.my_attack_count = @ + 1]

\* the bookkeeping of the king plan after the agent chose an attack
CountKingAttack(tr, attack) ==
  LET t1 == CountAttack(tr)
      t2 == IF /\ t1.kg_plan_active
               /\ t1.my_attack_count = 2
               /\ attack \in {8, 9}
               /\ t1.kg_second = NoTile
            THEN [t1 EXCEPT !.kg_second = attack] ELSE t1
  IN  IF t2.kg_plan_active /\ t2.my_attack_count >= 3
      THEN [t2 EXCEPT !.kg_plan_active = FALSE] ELSE t2

IsAttackAction(act) == act[1] \in {"attack", "attack_after_block"}

\* what a call of select_action leaves: the action returned, the tracker,
\* the round that was passed in, and whether the call raised instead
\* variant of Chosen that returns the attack of a cover-then-attack without
\* its cover
Chosen_bare(act, tr, state) ==
  [action |-> IF act[1] = "attack_after_block"
              THEN <<"attack", NoTile, act[3]>> ELSE act,
   track |-> tr, state |-> state, raised |-> FALSE]

\* return (t, b, a): an element of the list, the tracker and the round
\* passed in as they are at the return
Chosen(act, tr, state) ==
  [action |-> act, track |-> tr, state |-> state, raised |-> FALSE]

Failed(tr, state) ==
  [action |-> <<>>, track |-> tr, state |-> state, raised |-> TRUE]

\* for (t, b, a) in actions: the attacks whose _win_now_bonus is positive,
\* and the round passed in after the calls; i is the index of the next
\* element
RECURSIVE WinNowScan(_, _, _, _, _)
RECURSIVE WinNowTried(_, _, _, _, _)
\* the rest of the loop after actions[i], whose _win_now_bonus returned w
WinNowTried(w, player, actions, i, wins) ==
  IF w.bonus > 0
  THEN WinNowScan(w.state, player, actions, i + 1,
                  Append(wins, actions[i]))
  ELSE WinNowScan(w.state, player, actions, i + 1, wins)

WinNowScan(state, player, actions, i, wins) ==
  IF i > Len(actions) THEN [state |-> state, wins |-> wins]
  ELSE IF ~IsAttackAction(actions[i])
    THEN WinNowScan(state, player, actions, i + 1, wins)
  ELSE WinNowTried(_win_now_bonus(state, player, actions[i]),
                   player, actions, i, wins)

EnemyAttackTurn(state, player) ==
  /\ state.phase = "receive"
  /\ state.current_attack # NoTile
  /\ state.attacker # NoSeat
  /\ ~_same_team(state.attacker, player)

\* 3) the general scoring: best3 is the outcome of the scoring loop over
\* all the actions
GeneralChoice(tr, best3, player) ==
  LET best_action == best3.best
      t3a == IF /\ EnemyAttackTurn(best3.state, player)
                /\ ~tr.first_enemy_attack_seen
             THEN [tr EXCEPT
                     !.first_enemy_attack_seen = TRUE,
                     !.first_enemy_attack_skipped =
                        IF best_action[1] = "pass" THEN TRUE ELSE @]
             ELSE tr
      t3b == IF IsAttackAction(best_action)
             THEN CountKingAttack(t3a, best_action[3]) ELSE t3a
  IN  Chosen(best_action, t3b, best3.state)

\* select_action after the tracker tr was looked up and the scan for a
\* move that wins at once returned scan
SelectFrom(tr, scan, player, actions) ==
  LET has_non_king_attack_option ==
        (SelectSeq(actions, LAMBDA act :
              /\ IsAttackAction(act)
              /\ act[3] # NoTile
              /\ act[3] \notin {8, 9}) # <<>>)
      \* 0) a move that wins at once
      st == scan.state
      win_now_actions == scan.wins
      stage0 ==
        IF win_now_actions # <<>>
        THEN << Chosen(win_now_actions[1],
                       CountKingAttack(tr, win_now_actions[1][3]), st) >>
        ELSE <<>>
      \* the plan of attacking with 1s
      ally == tr.ally
      enemy_attack_turn == EnemyAttackTurn(st, player)
      isPass(act) == act[1] = "pass"
      isRecv1(act) == act[1] = "receive" /\ act[2] = 1
      isCover11(act) ==
        act[1] = "attack_after_block" /\ act[2] = 1 /\ act[3] = 1
      active == [tr EXCEPT !.shi_plan_active = TRUE]
      stageS1 ==
        IF /\ tr.shi_plan_eligible
           /\ ~tr.shi_plan_active
           /\ enemy_attack_turn
           /\ ~tr.first_enemy_attack_seen
           /\ (SelectSeq(actions, isPass) # <<>>)
        THEN << Chosen(Head(SelectSeq(actions, isPass)),
                       [tr EXCEPT !.first_enemy_attack_seen = TRUE,
                                  !.first_enemy_attack_skipped = TRUE],
                       st) >>
        ELSE <<>>
      recv1 == SelectSeq(actions, LAMBDA act :
                  /\ act[1] \in {"receive", "attack_after_block"}
                  /\ act[2] = 1)
      chosenS2 ==
        IF (SelectSeq(recv1, LAMBDA a : a[1] = "receive") # <<>>)
        THEN Head(SelectSeq(recv1, LAMBDA a : a[1] = "receive"))
        ELSE recv1[1]
      stageS2 ==
        IF /\ tr.shi_plan_eligible
           /\ ~tr.shi_plan_active
           /\ enemy_attack_turn
           /\ tr.first_enemy_attack_seen
           /\ recv1 # <<>>
        THEN << Chosen(chosenS2,
                       IF IsAttackAction(chosenS2) THEN CountAttack(active)
                       ELSE active,
                       st) >>
        ELSE <<>>
      my_shi == Count(st.hands[player], 1)
      candsS3 == SelectSeq(actions, LAMBDA act :
                    /\ act[1] = "attack_after_block"
                    /\ act[2] = 1
                    /\ act[3] # NoTile
                    /\ act[3] # 1)
      has_non_king ==
        SelectSeq(candsS3, LAMBDA c :
                  c[3] # NoTile /\ c[3] \notin {8, 9}) # <<>>
      bestS3 ==
        BestOf(tr, player, has_non_king, FALSE, st, candsS3)
      stageS3 ==
        IF ~(/\ tr.shi_plan_eligible
             /\ st.phase = "receive"
             /\ st.current_attack = 1
             /\ st.attacker = ally
             /\ tr.shi_chain_passed)
        THEN <<>>
        ELSE IF my_shi <= 2 /\ candsS3 # <<>>
          THEN << Chosen(bestS3.best, CountAttack(active), bestS3.state) >>
        ELSE IF my_shi <= 2 /\ (SelectSeq(actions, isRecv1) # <<>>)
          THEN << Chosen(Head(SelectSeq(actions, isRecv1)), active, st) >>
        ELSE IF my_shi = 3 /\ (SelectSeq(actions, isPass) # <<>>)
          THEN << Chosen(Head(SelectSeq(actions, isPass)), tr, st) >>
        ELSE IF my_shi >= 4 /\ (SelectSeq(actions, isCover11) # <<>>)
          THEN << Chosen(Head(SelectSeq(actions, isCover11)),
                         CountAttack([active EXCEPT
                                        !.shi_message_sent = TRUE]),
                         st) >>
        ELSE IF my_shi >= 4 /\ (SelectSeq(actions, isRecv1) # <<>>)
          THEN << Chosen(Head(SelectSeq(actions, isRecv1)), active, st) >>
        ELSE <<>>
      attack_actions == SelectSeq(actions, LAMBDA act :
                           IsAttackAction(act) /\ act[3] # NoTile)
      With(p) == SelectSeq(attack_actions, LAMBDA act : act[3] = p)
      hand == st.hands[player]
      \* B) two tiles left, a king among them: keep the king for last
      non_king_attack_actions ==
        SelectSeq(attack_actions, LAMBDA act : act[3] \notin {8, 9})
      bestB ==
        BestOf(tr, player, TRUE, FALSE, st, non_king_attack_actions)
      stageB ==
        IF /\ attack_actions # <<>>
           /\ Len(hand) = 2
           /\ Has(hand, 8) \/ Has(hand, 9)
           /\ non_king_attack_actions # <<>>
        THEN << Chosen(bestB.best, CountAttack(tr), bestB.state) >>
        ELSE <<>>
      \* 1) dealt both kings: second and third attack
      next_attack_no == tr.my_attack_count + 1
      has9 == Has(hand, 9)
      has8 == Has(hand, 8)
      second == tr.kg_second
      want == IF second = 9 THEN 8 ELSE IF second = 8 THEN 9 ELSE NoTile
      secondAttack(act) ==
        Chosen(act,
               LET t == CountAttack(tr)
               IN  IF act[3] \in {8, 9} /\ t.kg_second = NoTile
                   THEN [t EXCEPT !.kg_second = act[3]] ELSE t,
               st)
      thirdAttack(act) ==
        Chosen(act, [CountAttack(tr) EXCEPT !.kg_plan_active = FALSE], st)
      stage1 ==
        IF ~(/\ tr.kg_plan_active
             /\ attack_actions # <<>>
             /\ next_attack_no \in {2, 3}
             /\ has8 \/ has9)
        THEN <<>>
        ELSE IF next_attack_no = 2
          THEN IF has9 /\ With(9) # <<>> THEN << secondAttack(With(9)[1]) >>
               ELSE IF has8 /\ With(8) # <<>>
                 THEN << secondAttack(With(8)[1]) >>
               ELSE <<>>
        ELSE IF want # NoTile /\ With(want) # <<>>
          THEN << thirdAttack(With(want)[1]) >>
        ELSE IF With(9) # <<>> THEN << thirdAttack(With(9)[1]) >>
        ELSE IF With(8) # <<>> THEN << thirdAttack(With(8)[1]) >>
        ELSE <<>>
      \* A) third attack: an attack the next seat cannot receive
      unrecv == _best_unreceivable_attack_action(st, player, attack_actions)
      stageA ==
        IF /\ attack_actions # <<>>
           /\ next_attack_no = 3
           /\ (SelectSeq(attack_actions, LAMBDA act : act[3] \in {8, 9}) # <<>>)
           /\ unrecv # <<>>
           /\ unrecv[3] \notin {8, 9}
        THEN << Chosen(unrecv, CountAttack(tr), st) >>
        ELSE <<>>
      \* 2) third attack: a king if one can be played
      stage2 ==
        IF attack_actions # <<>> /\ next_attack_no = 3
        THEN IF With(8) # <<>> THEN << thirdAttack(With(8)[1]) >>
             ELSE IF With(9) # <<>> THEN << thirdAttack(With(9)[1]) >>
             ELSE <<>>
        ELSE <<>>
      \* S4, S5) the plan of attacking with 1s, on the attack
      ax == tr.ally_axis_pending
      ax_cands == With(ax)
      bestS4 ==
        BestOf(tr, player, has_non_king_attack_option, FALSE, st, ax_cands)
      shi_cands == With(1)
      bestS5 ==
        BestOf(tr, player, has_non_king_attack_option, FALSE, st, shi_cands)
      stageS45 ==
        IF ~(/\ tr.shi_plan_active
             /\ ~tr.kg_plan_active
             /\ attack_actions # <<>>)
        THEN <<>>
        ELSE IF ax \in TARGET_X /\ ax_cands # <<>>
          THEN << Chosen(bestS4.best, CountAttack(tr), bestS4.state) >>
        ELSE IF shi_cands # <<>>
          THEN << Chosen(bestS5.best, CountAttack(tr), bestS5.state) >>
        ELSE <<>>
  IN  IF stage0 # <<>> THEN stage0[1]
      ELSE IF stageS1 # <<>> THEN stageS1[1]
      ELSE IF stageS2 # <<>> THEN stageS2[1]
      ELSE IF stageS3 # <<>> THEN stageS3[1]
      ELSE IF stageB # <<>> THEN stageB[1]
      ELSE IF stage1 # <<>> THEN stage1[1]
      ELSE IF stageA # <<>> THEN stageA[1]
      ELSE IF stage2 # <<>> THEN stage2[1]
      ELSE IF stageS45 # <<>> THEN stageS45[1]
      ELSE IF actions = <<>> THEN Failed(tr, st)
      ELSE GeneralChoice(
             tr,
             BestOf(tr, player, has_non_king_attack_option, TRUE, st,
                    actions),
             player)

\* RuleBasedAgent.select_action of the agent bound to seat me, with tracker
\* tr0, called with the round s, the seat player and the list actions
select_action(tr0, me, s, player, actions) ==
  IF me # player THEN Failed(tr0, s)
  ELSE SelectFrom(_ensure_trackers(tr0, me, s),
                  WinNowScan(s, player, actions, 1, <<>>),
                  player, actions)

\* ---- state machine ----
\* The fields of the round after a call take the values of the record r.
\* moves counts the calls accepted so far in the round; the rounds are
\* followed for at most MaxMoves accepted calls.  deal is the deal the
\* round was constructed from.
CommitWithin(r, bound) ==
  /\ r.raised \/ moves < bound
  /\ moves' = IF r.raised THEN moves ELSE moves + 1
  /\ deal' = deal
  /\ hands' = r.hands
  /\ had_both_kings' = r.had_both_kings
  /\ face_down_hidden' = r.face_down_hidden
  /\ current_attack' = r.current_attack
  /\ attacker' = r.attacker
  /\ phase' = r.phase
  /\ turn' = r.turn
  /\ last_block' = r.last_block
  /\ last_block_player' = r.last_block_player
  /\ king_block_used' = r.king_block_used
  /\ finished' = r.finished
  /\ winner' = r.winner
  /\ team_score' = r.team_score
  /\ raised' = r.raised

\* the same within the bound of the specifications that call any mutator
Commit(r) == CommitWithin(r, MaxMoves)

\* the fields of a freshly constructed round are those of the record r
Construct(r) ==
  /\ hands = r.hands
  /\ had_both_kings = r.had_both_kings
  /\ face_down_hidden = r.face_down_hidden
  /\ current_attack = r.current_attack
  /\ attacker = r.attacker
  /\ phase = r.phase
  /\ turn = r.turn
  /\ last_block = r.last_block
  /\ last_block_player = r.last_block_player
  /\ king_block_used = r.king_block_used
  /\ finished = r.finished
  /\ winner = r.winner
  /\ team_score = r.team_score
  /\ raised = r.raised

Reqs == {"r1", "r2", "r3"}
Games == {"g1", "g2"}
NoReq == "None"

\* game["lock"], made by create_game for each game
LockOf(g) == g

\* no driver: the round is called directly
\* ---- the deal ----
\* The deck that is shuffled, scaled down like the deals above: eight tiles
\* for hands of two, with both kings and half of the tiles of rank 1 (the
\* deck of utils.py 6-16 has 32 tiles for hands of eight, ten of rank 1).
deck == <<9, 8, 5, 5, 1, 1, 1, 1>>

\* tiles a seat is dealt (8 in the source)
HandSize == Len(deck) \div 4

\* a seat may be dealt that many tiles of rank 1 and no more: half a hand
\* (4 of 8 in the source)
ShiLimit == HandSize \div 2

\* every arrangement of the tiles of the sequence s
RECURSIVE Arrangements(_)
Arrangements(s) ==
  IF s = <<>> THEN {<<>>}
  ELSE UNION {{<<x>> \o t : t \in Arrangements(Remove(s, x))} :
                x \in Range(s)}

\* random.shuffle(deck): every arrangement of the tiles of the deck
Shuffles == Arrangements(deck)

\* the slices of the shuffled deck d that create_random_hands returns
create_random_hands(d) ==
  [p \in Seats |->
     SubSeq(d, (SeatIndex(p) - 1) * HandSize + 1, SeatIndex(p) * HandSize)]

\* _normalize_hands: str(x) of every tile; the tiles of create_random_hands
\* are strings already, so each comes back as it was
_normalize_hands(h) == [p \in Seats |-> [i \in 1 .. Len(h[p]) |-> h[p][i]]]

\* the test of app.py 37: no seat holds more tiles of rank 1 than allowed
FewShi(h) == \A p \in Seats : Count(h[p], 1) <= ShiLimit

\* no deal returned yet
NoDeal == [p \in Seats |-> <<>>]

\* bound of the loop of create_random_hands_no_five_shi (max_retry, 5000 by
\* default)
MaxRetry == 2

\* no deal is being made
NoDealing ==
  /\ attempt = 0
  /\ last_hands = NoDeal
  /\ dealt = NoDeal

\* ---- the game of the backend ----
\* slots a seat has on the board for its blocks, and for its attacks
Slots == 4

\* entries of the log that a view carries
LogTail == 200

\* no token: seat_token has no entry for the seat, or the request has none
NoToken == "None"

\* the admin token of the game (a uuid made by create_game)
admin_token == "admin"

\* the join requests; the uuid that join_game makes for a request is the
\* name of the request, so no two requests make the same token
Joins == {"j1", "j2", "j3"}

\* a join request before it is sent
NoJoin == [pc |-> "idle", seat |-> NoSeat, status |-> 0, token |-> NoToken]

\* _new_board_snapshot
_new_board_snapshot ==
  [p \in Seats |->
     [receive |-> [i \in 1 .. Slots |-> NoTile],
      attack |-> [i \in 1 .. Slots |-> NoTile],
      receive_hidden |-> [i \in 1 .. Slots |-> FALSE]]]

\* the index _push_first_empty returns for a value that is not None: the
\* first empty slot, or the last slot when none is empty
PushIndex(slots) ==
  IF \E i \in 1 .. Len(slots) : slots[i] = NoTile
    THEN CHOOSE i \in 1 .. Len(slots) :
           slots[i] = NoTile /\ \A j \in 1 .. i - 1 : slots[j] # NoTile
    ELSE Len(slots)

\* the slots after _push_first_empty
_push_first_empty(slots, value) ==
  IF value = NoTile THEN slots
  ELSE [slots EXCEPT ![PushIndex(slots)] = value]

\* the receive and receive_hidden rows of a seat after a block is pushed
PushBlock(row, value, hidden_receive) ==
  IF value = NoTile THEN row
  ELSE [row EXCEPT !.receive = _push_first_empty(@, value),
                   !.receive_hidden[PushIndex(row.receive)] = hidden_receive]

\* the board after _update_board_snapshot
_update_board_snapshot(bd, player, action, hidden_receive) ==
  IF action[1] = "receive"
    THEN [bd EXCEPT ![player] = PushBlock(@, action[2], hidden_receive)]
  ELSE IF action[1] = "attack"
    THEN [bd EXCEPT ![player].attack = _push_first_empty(@, action[3])]
  ELSE IF action[1] = "attack_after_block"
    THEN [bd EXCEPT ![player] =
            [PushBlock(@, action[2], hidden_receive)
               EXCEPT !.attack = _push_first_empty(@, action[3])]]
  ELSE bd

\* _is_hidden_receive_by_state_delta, for the round r after the move
_is_hidden_receive_by_state_delta(r, player, action_type, before_len) ==
  /\ action_type \in {"receive", "attack_after_block"}
  /\ Len(r.face_down_hidden[player]) > before_len

\* A line of the log: the words of the line and the seat and the tiles that
\* are written into it (NoTile where the line names none); hidden is the
\* suffix " (hidden)".
LogLine(text, player, block, attack, hidden) ==
  [text |-> text, player |-> player, block |-> block, attack |-> attack,
   hidden |-> hidden]

\* _format_action: the line for a move, with the tiles its text includes
_format_action(player, action, hidden) ==
  IF action[1] = "pass"
    THEN LogLine("pass", player, NoTile, NoTile, hidden)
  ELSE IF action[1] = "receive"
    THEN LogLine("receive", player, action[2], NoTile, hidden)
  ELSE IF action[1] = "attack"
    THEN LogLine("attack", player, NoTile, action[3], hidden)
  ELSE IF action[1] = "attack_after_block"
    THEN LogLine("block -> attack", player, action[2], action[3], hidden)
  ELSE LogLine(action[1], player, action[2], action[3], hidden)

\* the log of a game made by create_game
NewLog(dealer) == << LogLine("Game start", dealer, NoTile, NoTile, FALSE) >>

\* the suffix of the line of a move: the move left the round r, made from
\* the round live
HiddenIn(live, r, player, action) ==
  _is_hidden_receive_by_state_delta(r, player, action[1],
                                    Len(live.face_down_hidden[player]))

\* the log and the board after the handler applied a move (app.py 472-481,
\* 506-512); a move that raised leaves both as they were
LogAfter(lg, live, r, player, action) ==
  IF r.raised THEN lg
  ELSE Append(lg, _format_action(player, action,
                                 HiddenIn(live, r, player, action)))

BoardAfter(bd, live, r, player, action) ==
  IF r.raised THEN bd
  ELSE _update_board_snapshot(bd, player, action,
                              HiddenIn(live, r, player, action))

\* what a view shows of a hand: the tiles, or their number
HandView(hand, open) ==
  IF open THEN [list |-> TRUE, tiles |-> hand, count |-> Len(hand)]
  ELSE [list |-> FALSE, tiles |-> <<>>, count |-> Len(hand)]

\* _build_scores
_build_scores(r) ==
  [p \in Seats |->
     IF p \in {"A", "C"} THEN r.team_score["AC"] ELSE r.team_score["BD"]]

\* the last n entries of a list (lst[-n:])
LastOf(lst, n) ==
  IF Len(lst) <= n THEN lst ELSE SubSeq(lst, Len(lst) - n + 1, Len(lst))

\* the board of a view: with every receive_hidden flag cleared under a
\* reveal, else the board of the game itself
BoardView(bd, reveal_hands) ==
  IF reveal_hands
    THEN [p \in Seats |->
            [bd[p] EXCEPT !.receive_hidden = [i \in 1 .. Len(@) |-> FALSE]]]
    ELSE bd

\* _state_public_view
_state_public_view(r, viewer, lg, bd, reveal_hands) ==
  [turn |-> r.turn, phase |-> r.phase, attacker |-> r.attacker,
   current_attack |-> r.current_attack,
   hands |-> [p \in Seats |->
                HandView(r.hands[p], reveal_hands \/ p = viewer)],
   team_score |-> r.team_score,
   scores |-> _build_scores(r),
   board_public |-> BoardView(bd, reveal_hands),
   log |-> LastOf(lg, LogTail),
   finished |-> r.finished, winner |-> r.winner]

\* the seats of the game that are human seats
human_seats == Seats \ agents

\* GET /games/{gid}/state for a game with the round r, the tokens tok, the
\* log lg and the board bd: the answer to a request with the parameters
\* seat, token, reveal_hands and admin, in a game made with allow_reveal
get_state(r, tok, lg, bd, allow_reveal, seat, token, reveal_hands, admin) ==
  LET authed == token # NoToken /\ tok[seat] = token
      reveal == /\ allow_reveal /\ reveal_hands # 0
                /\ admin # NoToken /\ admin = admin_token
  IN  [view |-> _state_public_view(r, seat, lg, bd, reveal),
       human_seats |-> human_seats,
       you_are |-> [seat |-> seat, authed |-> authed],
       admin_reveal |-> reveal]

\* the tokens of a game whose human seats have all joined
JoinedTokens ==
  [s \in Seats |->
     IF s \in agents THEN NoToken
     ELSE CASE s = "A" -> "tA" [] s = "B" -> "tB"
            [] s = "C" -> "tC" [] s = "D" -> "tD"]

\* no move is on its way through a mutator
NoMove == <<NoSeat, <<>>>>

NoWrites ==
  /\ before = NewRound(NoDeal, "A")
  /\ doing = NoMove
  /\ stage = 0

\* no seat has joined and no join request is under way
NoJoins ==
  /\ seat_token = [s \in Seats |-> NoToken]
  /\ join = [j \in Joins |-> NoJoin]

NoDriver ==
  /\ agents = {}
  /\ track = [a \in Seats |-> NoTrack]
  /\ inbox = [a \in Seats |-> <<>>]
  /\ applied = <<>>
  /\ driver = "none"
  /\ pc = [r \in Reqs |-> "idle"]
  /\ req = [r \in Reqs |-> <<NoSeat, <<>>, 0>>]
  /\ lock = [g \in Games |-> NoReq]
  /\ hits = <<>>
  /\ NoDealing
  /\ NoWrites
  /\ NoJoins
  /\ log = <<>>
  /\ board = _new_board_snapshot

\* state = GoitaState(hands=create_random_hands(), dealer=...)
Init ==
  /\ \E n \in 1 .. NumDeals :
       /\ Construct(NewRound(HandsOf(n), Deals[n].dealer))
       /\ moves = 0
       /\ deal = n
  /\ NoDriver

ApplyPass ==
  \E p \in Seats :
    /\ Commit(apply_pass(State, p))
    /\ UNCHANGED drv

ApplyReceive ==
  \E p \in Seats, b \in Tiles :
    /\ Commit(apply_receive(State, p, b))
    /\ UNCHANGED drv

ApplyAttack ==
  \E p \in Seats, a \in Tiles :
    /\ Commit(apply_attack(State, p, a))
    /\ UNCHANGED drv

ApplyAttackAfterBlock ==
  \E p \in Seats, b \in Tiles, a \in Tiles :
    /\ Commit(apply_attack_after_block(State, p, b, a))
    /\ UNCHANGED drv

Next == ApplyPass \/ ApplyReceive \/ ApplyAttack \/ ApplyAttackAfterBlock

Spec == Init /\ [][Next]_vars

\* ---- legal play ----
\* default of the max_steps parameter of simulate_random_game
max_steps == 500

\* One iteration of the loop of simulate_random_game: while the round is
\* unfinished, the seat to move picks one of its legal_actions (random
\* choice or an agent; any element of the list here) and the matching
\* mutator is called.  The loop ends when the list is empty.
SimStep(kind) ==
  /\ ~finished
  /\ moves < max_steps
  /\ \E m \in Range(legal_actions(State, turn)) :
       /\ m[1] = kind
       /\ CommitWithin(_apply_action(State, turn, m), MaxPlay)
  /\ UNCHANGED drv

SimPass == SimStep("pass")

SimReceive == SimStep("receive")

SimAttack == SimStep("attack")

SimAttackAfterBlock == SimStep("attack_after_block")

NextLegal == SimPass \/ SimReceive \/ SimAttack \/ SimAttackAfterBlock

SpecLegal == Init /\ [][NextLegal]_vars

\* the loop keeps iterating while its condition holds
SpecLegalFair == SpecLegal /\ WF_vars(NextLegal)

\* ---- the drivers ----
\* simulate_random_game (goita_ai2/simulate.py) and the step handler of the
\* HTTP backend (backend/app.py).  agents is the set of seats that have a
\* RuleBasedAgent (the other seats move at random in the simulation and are
\* human seats in the backend), track the tracker of each agent, inbox the
\* notifications each agent was given, applied the moves the driver applied.
\* In the backend r1 and r2 are requests on the game whose round is
\* modelled, r3 is a request on another game; pc is the position of a
\* request in the handler, req its seat and action and the number of moves
\* the round had when the client sent it, lock the holder of the lock of
\* each game.  hits lists, for each request whose move was applied, the
\* number of moves the round had when it was sent and when it was applied.
\* the game a request names in its URL
GameOf(r) == IF r = "r3" THEN "g2" ELSE "g1"

\* the seats given an agent: in the simulation, in the backend
SimLineups == {{"A", "C"}, {"B", "D"}}
HttpLineups == {{"B", "C", "D"}, {"B", "D"}}

\* variant of _notify_public that tells the agents of a rejected move too
_notify_public_always(box, ags, r, player, action) ==
  [a \in Seats |->
     IF a \in ags
     THEN Append(box[a], [player |-> player, action |-> action,
                          seen |-> <<r.turn, r.phase>>])
     ELSE box[a]]

\* The inboxes after the driver handled a move that left the round r: the
\* call of _notify_public comes after the mutator, so a move that raised
\* is not told.  seen is what the agent finds in the round it is handed.
_notify_public(box, ags, r, player, action) ==
  IF r.raised THEN box
  ELSE [a \in Seats |->
          IF a \in ags
          THEN Append(box[a], [player |-> player, action |-> action,
                               seen |-> <<r.turn, r.phase>>])
          ELSE box[a]]

\* the trackers after on_public_action of every agent
Told(tk, ags, r, player, action) ==
  IF r.raised THEN tk
  ELSE [a \in Seats |->
          IF a \in ags THEN on_public_action(tk[a], a, r, player, action)
          ELSE tk[a]]

\* the moves applied so far, one row for each move that did not raise
Logged(rows, r, player, action) ==
  IF r.raised THEN rows ELSE Append(rows, <<player, action>>)

\* the driver applies action for player to the round live, after the
\* trackers became tk
Drive(live, tk, player, action) ==
  LET r == _apply_action(live, player, action)
  IN  /\ Commit(r)
      /\ track' = Told(tk, agents, r, player, action)
      /\ inbox' = _notify_public(inbox, agents, r, player, action)
      /\ applied' = Logged(applied, r, player, action)

\* the handler writes the move it applied to the round live on the board
\* and into the log of the game
Shows(live, r, player, action) ==
  /\ log' = LogAfter(log, live, r, player, action)
  /\ board' = BoardAfter(board, live, r, player, action)

\* the seat to move chooses: its agent if it has one, else any legal move
Choices(player, actions) ==
  IF player \in agents
  THEN {select_action(track[player], player, State, player, actions)}
  ELSE {Chosen(actions[i], track[player], State) : i \in 1 .. Len(actions)}

\* one iteration of the loop of simulate_random_game
SimTurn ==
  /\ driver = "simulate"
  /\ UNCHANGED <<ext, shown>>
  /\ ~finished
  /\ LET actions == legal_actions(State, turn)
     IN  /\ actions # <<>>
         /\ \E c \in Choices(turn, actions) :
              /\ ~c.raised
              /\ Drive(c.state, [track EXCEPT ![turn] = c.track],
                       turn, c.action)
  /\ UNCHANGED <<agents, driver, pc, req, lock, hits>>

\* GET /games/{gid}/legal_actions: nothing for a finished round or for a
\* seat that is not to move, else the legal_actions of the seat.  A client
\* sends one of the moves it was listed.
get_legal_actions(seat) ==
  IF finished \/ turn # seat THEN <<>> ELSE legal_actions(State, seat)

\* POST /games/{gid}/step arrives and passes the checks made before the
\* lock is taken (the game exists, the seat is a seat, the token of a human
\* seat matches)
Request(r) ==
  /\ driver = "http"
  /\ UNCHANGED <<ext, shown>>
  /\ pc[r] = "idle"
  /\ IF GameOf(r) = "g1"
     THEN \E seat \in Seats :
            \E a \in Range(get_legal_actions(seat)) :
              req' = [req EXCEPT ![r] = <<seat, a, moves>>]
     ELSE req' = [req EXCEPT ![r] = <<"A", <<"pass", NoTile, NoTile>>, 0>>]
  /\ pc' = [pc EXCEPT ![r] = "wait"]
  /\ UNCHANGED <<hands, had_both_kings, face_down_hidden, current_attack,
                 attacker, phase, turn, last_block, last_block_player,
                 king_block_used, finished, winner, team_score, raised,
                 moves, deal, agents, track, inbox, applied, driver, lock,
                 hits>>

\* variant of Free in which the lock never makes a request wait
Free_always(g) == TRUE

\* the lock of game g is not held
Free(g) == lock[LockOf(g)] = NoReq

\* with lock:
Acquire(r) ==
  /\ driver = "http"
  /\ UNCHANGED <<ext, shown>>
  /\ pc[r] = "wait"
  /\ Free(GameOf(r))
  /\ lock' = [lock EXCEPT ![LockOf(GameOf(r))] = r]
  /\ pc' = [pc EXCEPT ![r] = "locked"]
  /\ UNCHANGED <<hands, had_both_kings, face_down_hidden, current_attack,
                 attacker, phase, turn, last_block, last_block_player,
                 king_block_used, finished, winner, team_score, raised,
                 moves, deal, agents, track, inbox, applied, driver, req,
                 hits>>

\* the move of the request: nothing if the round is finished, refused if
\* it is not the seat's turn or the mutator raises, else applied, logged
\* and told to the agents
RequestMove(r) ==
  /\ driver = "http"
  /\ UNCHANGED ext
  /\ pc[r] = "locked"
  /\ GameOf(r) = "g1"
  /\ IF finished \/ turn # req[r][1]
     THEN /\ pc' = [pc EXCEPT ![r] = "exit"]
          /\ UNCHANGED <<hands, had_both_kings, face_down_hidden,
                         current_attack, attacker, phase, turn, last_block,
                         last_block_player, king_block_used, finished,
                         winner, team_score, raised, moves, deal, track,
                         inbox, applied, hits, log, board>>
     ELSE /\ Drive(State, track, req[r][1], req[r][2])
          /\ Shows(State, _apply_action(State, req[r][1], req[r][2]),
                   req[r][1], req[r][2])
          /\ pc' = [pc EXCEPT ![r] =
                      IF raised' THEN "exit" ELSE "advance"]
          /\ hits' = IF raised' THEN hits
                     ELSE Append(hits, <<req[r][3], moves>>)
  /\ UNCHANGED <<agents, driver, req, lock>>

\* the loop that moves for the CPU seats goes on
CpuTurn ==
  /\ ~finished
  /\ turn \in agents
  /\ legal_actions(State, turn) # <<>>

\* the move c the agent of the seat to move selected is applied, told to
\* the agents, put on the board and logged
CpuApply(r, c) ==
  /\ ~c.raised
  /\ Drive(c.state, [track EXCEPT ![turn] = c.track], turn, c.action)
  /\ Shows(c.state, _apply_action(c.state, turn, c.action), turn, c.action)
  /\ pc' = [pc EXCEPT ![r] = IF raised' THEN "exit" ELSE "advance"]

\* one iteration of the loop that moves for the CPU seats
CpuMove(r) ==
  /\ driver = "http"
  /\ UNCHANGED ext
  /\ pc[r] = "advance"
  /\ CpuTurn
  /\ CpuApply(r, select_action(track[turn], turn, State, turn,
                               legal_actions(State, turn)))
  /\ UNCHANGED <<agents, driver, req, lock, hits>>

\* the handler returns (or raises) and the with block releases the lock;
\* when it returns after the loop for the CPU seats and the round is
\* finished, it has written that into the log
Release(r) ==
  /\ driver = "http"
  /\ UNCHANGED <<ext, board>>
  /\ log' = IF pc[r] = "advance" /\ GameOf(r) = "g1" /\ finished
              THEN Append(log, LogLine("Game finished", winner, NoTile,
                                       NoTile, FALSE))
              ELSE log
  /\ \/ pc[r] = "exit"
     \/ pc[r] = "advance" /\ ~CpuTurn
     \/ pc[r] = "locked" /\ GameOf(r) # "g1"
  /\ lock' = [lock EXCEPT ![LockOf(GameOf(r))] = NoReq]
  /\ pc' = [pc EXCEPT ![r] = "idle"]
  /\ req' = [req EXCEPT ![r] = <<NoSeat, <<>>, 0>>]
  /\ UNCHANGED <<hands, had_both_kings, face_down_hidden, current_attack,
                 attacker, phase, turn, last_block, last_block_player,
                 king_block_used, finished, winner, team_score, raised,
                 moves, deal, agents, track, inbox, applied, driver, hits>>

Arrive == \E r \in Reqs : Request(r)

Enter == \E r \in Reqs : Acquire(r)

Move == \E r \in Reqs : RequestMove(r)

Advance == \E r \in Reqs : CpuMove(r)

Leave == \E r \in Reqs : Release(r)

\* a simulation with its agents bound, or a game made by create_game
InitDrivers ==
  /\ \E n \in 1 .. NumDeals :
       /\ Construct(NewRound(HandsOf(n), Deals[n].dealer))
       /\ moves = 0
       /\ deal = n
  /\ \/ driver = "simulate" /\ agents \in SimLineups
     \/ driver = "http" /\ agents \in HttpLineups
  /\ track = [a \in Seats |-> NoTrack]
  /\ inbox = [a \in Seats |-> <<>>]
  /\ applied = <<>>
  /\ pc = [r \in Reqs |-> "idle"]
  /\ req = [r \in Reqs |-> <<NoSeat, <<>>, 0>>]
  /\ lock = [g \in Games |-> NoReq]
  /\ hits = <<>>
  /\ NoDealing
  /\ NoWrites
  /\ join = [j \in Joins |-> NoJoin]
  /\ seat_token = IF driver = "http" THEN JoinedTokens
                  ELSE [s \in Seats |-> NoToken]
  /\ log = IF driver = "http" THEN NewLog(turn) ELSE <<>>
  /\ board = _new_board_snapshot

NextDrivers == SimTurn \/ Arrive \/ Enter \/ Move \/ Advance \/ Leave

SpecDrivers == InitDrivers /\ [][NextDrivers]_vars

\* ---- properties ----
\* tiles in the four hands, in the four concealed piles and on the table
TileTotal ==
  Len(hands["A"]) + Len(hands["B"]) + Len(hands["C"]) + Len(hands["D"])
    + Len(face_down_hidden["A"]) + Len(face_down_hidden["B"])
    + Len(face_down_hidden["C"]) + Len(face_down_hidden["D"])
    + (IF current_attack # NoTile THEN 1 ELSE 0)

\* tiles that leave play face-up in a step: the attack and the block of a
\* Receive, or the standing attack that a new attack replaces
LeftPlay ==
  IF current_attack # NoTile /\ current_attack' = NoTile THEN 2
  ELSE IF current_attack # NoTile /\ hands' # hands THEN 1
  ELSE 0

\* C1 as stated: before the round is finished, the tiles in the hands, in
\* the concealed piles and on the table are all the tiles dealt (32 in a
\* full deal, DeckSize here).
C1_AllTilesCounted == ~finished => TileTotal = DeckSize(deal)

\* C1 amended: the total starts at the number of tiles dealt and never
\* grows; a successful Receive lowers it by exactly 2, an Attack or
\* CoverThenAttack played over a standing attack lowers it by exactly 1, and
\* every other call, accepted or rejected, leaves it unchanged.
C1_TileTotalSteps ==
  /\ TileTotal = DeckSize(deal)
  /\ [][TileTotal' = TileTotal - LeftPlay]_vars

\* C1 witness: a seat has just received; two tiles have left play.
C1_AfterReceive ==
  /\ ~finished /\ ~raised
  /\ phase = "attack" /\ current_attack = NoTile /\ attacker = turn
  /\ TileTotal = DeckSize(deal) - 2

\* C2 as stated: for every seat, every move listed by legal_actions(seat) is
\* accepted by the matching mutator when applied for that seat.
C2_LegalMovesAccepted ==
  \A p \in Seats :
    \A m \in Range(legal_actions(State, p)) :
      ~_apply_action(State, p, m).raised

\* C3 as stated: for every seat, every move that legal_actions(seat) does
\* not list is rejected by the mutators.
C3_UnlistedMovesRejected ==
  \A p \in Seats :
    \A m \in AllMoves \ Range(legal_actions(State, p)) :
      _apply_action(State, p, m).raised

\* C4 as stated: once finished, every mutator call by any seat with any
\* arguments raises and leaves the round unchanged.
C4_FinishedRejectsAll ==
  finished =>
    \A p \in Seats :
      \A m \in AllMoves : _apply_action(State, p, m) = Raise(State)

\* C5 as stated: after the round has finished, no call changes winner,
\* resets finished or adds to team_score.
C5_FinishedOnce ==
  [][finished =>
       finished' /\ winner' = winner /\ team_score' = team_score]_vars

\* C6: a mutator call that raises leaves every field of the round as it
\* was before the call.
C6_NoPartialMove ==
  \A p \in Seats :
    \A m \in AllMoves :
      LET r == _apply_action(State, p, m)
      IN  r.raised => r = Raise(State)

\* C6 witness: a call has been rejected in attack phase where the seat to
\* move holds two or more tiles and a single copy of some rank, so that a
\* cover-then-attack with that rank twice passes the cover check and fails.
C6_AfterRejectedCover ==
  /\ raised /\ phase = "attack"
  /\ Len(hands[turn]) >= 2
  /\ \E t \in Tiles : Count(hands[turn], t) = 1

\* C7: every call by a seat other than turn is rejected; Receive and Pass
\* are rejected in attack phase; Attack and CoverThenAttack are rejected in
\* receive phase.
C7_TurnAndPhaseChecked ==
  /\ \A p \in Seats \ {turn} :
       \A m \in AllMoves : _apply_action(State, p, m).raised
  /\ phase = "attack" =>
       \A p \in Seats :
         \A m \in {x \in AllMoves : x[1] \in {"pass", "receive"}} :
           _apply_action(State, p, m).raised
  /\ phase = "receive" =>
       \A p \in Seats :
         \A m \in {x \in AllMoves :
                     x[1] \in {"attack", "attack_after_block"}} :
           _apply_action(State, p, m).raised

\* C7 witness: a call has been rejected while an attack awaits an answer.
C7_AfterRejectedCall ==
  /\ raised /\ ~finished
  /\ phase = "receive" /\ current_attack # NoTile /\ turn # attacker

\* C8 as stated: a bare Attack by seat p is accepted only in attack phase,
\* on p's turn, with attacker = p and no attack on the table.
C8_BareAttackOnlyAfterReceive ==
  \A p \in Seats :
    \A a \in Tiles :
      ~apply_attack(State, p, a).raised =>
        /\ phase = "attack" /\ turn = p
        /\ attacker = p /\ current_attack = NoTile

\* C9 as stated: a CoverThenAttack by seat p is accepted only in attack
\* phase, on p's turn, and either as the first move of the round or when
\* the turn came back to the attacker with the attack still on the table.
C9_CoverOnlyWhenRequired ==
  \A p \in Seats :
    \A b \in Tiles :
      \A a \in Tiles :
        ~apply_attack_after_block(State, p, b, a).raised =>
          /\ phase = "attack" /\ turn = p
          /\ \/ attacker = NoSeat /\ current_attack = NoTile
             \/ attacker = p /\ current_attack # NoTile

\* a successful Pass: in receive phase only Pass and Receive are accepted,
\* and Receive changes a hand
PassStep ==
  /\ phase = "receive" /\ ~raised'
  /\ hands' = hands /\ turn' # turn

\* C10 as stated: a Pass moves the turn to the next seat in cyclic order;
\* while the turn has not come back to the attacker the phase stays
\* receive; when it has, the phase is attack and legal_actions of the
\* attacker is non-empty and lists only attack_after_block moves.
C10_PassWrapAround ==
  [][PassStep =>
       /\ turn' = next_player(turn)
       /\ IF turn' = attacker
            THEN /\ phase' = "attack"
                 /\ legal_actions(State', turn') # <<>>
                 /\ \A m \in Range(legal_actions(State', turn')) :
                      m[1] = "attack_after_block"
            ELSE phase' = "receive"]_vars

\* the king-unlock conditions for a bare attack of seat p with tile t in the
\* round s, written from the rules
UnlockedBare(s, p, t) ==
  \/ t \in 1 .. 7
  \/ s.had_both_kings[p]
  \/ s.king_block_used > 0
  \/ Len(s.hands[p]) = 1

\* C11 as stated: a successful Receive(seat, block) takes exactly one copy
\* of block out of the seat's hand, clears current_attack and sets attacker,
\* turn to the seat and phase to attack; legal_actions of the seat then
\* lists only bare attacks, one for each distinct rank in the hand that
\* passes the king-unlock conditions.
C11_ReceiveThenBareAttacks ==
  \A p \in Seats :
    \A b \in Tiles :
      LET r == apply_receive(State, p, b)
          la == legal_actions(r, p)
      IN  ~r.raised =>
            /\ Len(r.hands[p]) = Len(hands[p]) - 1
            /\ \A t \in Tiles :
                 Count(r.hands[p], t) =
                   Count(hands[p], t) - (IF t = b THEN 1 ELSE 0)
            /\ \A q \in Seats \ {p} : r.hands[q] = hands[q]
            /\ r.current_attack = NoTile
            /\ r.attacker = p /\ r.phase = "attack" /\ r.turn = p
            /\ \A i \in 1 .. Len(la) :
                 la[i][1] = "attack" /\ la[i][2] = NoTile
            /\ { la[i][3] : i \in 1 .. Len(la) } =
                 { t \in Tiles : Has(r.hands[p], t) /\ UnlockedBare(r, p, t) }
            /\ Len(la) =
                 Cardinality({ t \in Tiles :
                                 Has(r.hands[p], t) /\ UnlockedBare(r, p, t) })

\* C12: in receive phase on the seat's turn, a Receive with block is
\* accepted exactly when block is in the hand and either equals the attack
\* on the table or is an 8 or 9 while the attack is neither 1 nor 2; the
\* king-unlock conditions play no part.
C12_ReceiveRule ==
  phase = "receive" =>
    \A b \in Tiles :
      ~apply_receive(State, turn, b).raised <=>
        /\ Has(hands[turn], b)
        /\ \/ b = current_attack
           \/ b \in {8, 9} /\ current_attack \notin {1, 2}

\* C12 witness: a seat that was not dealt both kings has just received with
\* a king, the first king shown in the round.
C12_AfterKingReceive ==
  /\ ~raised /\ ~finished
  /\ phase = "attack" /\ current_attack = NoTile /\ attacker = turn
  /\ king_block_used = 1 /\ ~had_both_kings[turn]
  /\ \E t \in {8, 9} :
       Count(hands[turn], t) < Count(HandsOf(deal)[turn], t)

C14_BothKingsForever ==
  /\ had_both_kings =
       [p \in Seats |->
          Has(HandsOf(deal)[p], 8) /\ Has(HandsOf(deal)[p], 9)]
  /\ \A k \in {8, 9} :
       (phase = "attack" /\ had_both_kings[turn] /\ Has(hands[turn], k)) =>
         /\ ~apply_attack(State, turn, k).raised
         /\ \A b \in Tiles \ {k} :
              Has(hands[turn], b) =>
                ~apply_attack_after_block(State, turn, b, k).raised
         /\ (~finished /\ legal_actions(State, turn) # <<>>) =>
              \E m \in Range(legal_actions(State, turn)) : m[3] = k

\* C14 witness: a seat dealt both kings is on its attack turn, has played
\* one king and holds the other, and no king has been shown in a Receive.
C14_OneKingLeft ==
  /\ ~finished /\ phase = "attack" /\ king_block_used = 0
  /\ had_both_kings[turn]
  /\ Count(hands[turn], 8) + Count(hands[turn], 9) = 1

KingReceiveStep ==
  /\ current_attack # NoTile /\ current_attack' = NoTile
  /\ \E k \in {8, 9} : Count(hands'[turn], k) < Count(hands[turn], k)

\* C16: king_block_used starts at 0; a step adds exactly one to it when it
\* is a successful Receive with an 8 or 9 and leaves it unchanged otherwise
\* (so it never decreases, and concealing a king does not count); whenever
\* it is positive, the seat on its attack turn has every attack with a king
\* it holds accepted, bare or over any other tile of its hand.
C16_KingBlockCounter ==
  /\ king_block_used = 0
  /\ [][king_block_used' =
          king_block_used + (IF KingReceiveStep THEN 1 ELSE 0)]_vars
  /\ [](king_block_used > 0 =>
          \A k \in {8, 9} :
            (phase = "attack" /\ Has(hands[turn], k)) =>
              /\ ~apply_attack(State, turn, k).raised
              /\ \A b \in Tiles \ {k} :
                   Has(hands[turn], b) =>
                     ~apply_attack_after_block(State, turn, b, k).raised)

\* C16 witness: after a king was shown in a Receive, a seat that was not
\* dealt both kings is on its attack turn holding a king and other tiles.
C16_UnlockedForAll ==
  /\ ~finished /\ ~raised /\ phase = "attack"
  /\ king_block_used > 0 /\ ~had_both_kings[turn]
  /\ Len(hands[turn]) >= 3
  /\ \E k \in {8, 9} : Has(hands[turn], k)

\* the team of a seat
TeamOf(p) == IF p \in {"A", "C"} THEN "AC" ELSE "BD"

\* a step that finishes the round: the seat to move has an attack accepted
\* (the phase goes from attack to receive) that empties its hand
FinishStep ==
  /\ phase = "attack" /\ ~raised' /\ phase' = "receive"
  /\ hands'[turn] = <<>>

\* what a finishing step adds to the total of the winner's team
Credited == team_score'[TeamOf(turn)] - team_score[TeamOf(turn)]

\* the latest concealment of the round, after the finishing step, was made
\* by the winner with the rank of the winning attack tile
DoubleWin ==
  last_block_player' = turn /\ last_block' = current_attack'

\* the last tile of the winner's own concealed pile and the winning attack
\* tile are an 8 and a 9
PairedKings ==
  /\ face_down_hidden'[turn] # <<>>
  /\ {face_down_hidden'[turn][Len(face_down_hidden'[turn])],
      current_attack'} = {8, 9}

\* C17 as stated: a finishing step credits the base value of the winning
\* attack tile, doubled exactly when the latest concealment of the round is
\* the winner's and has the rank of the winning tile.
C17_BaseOrDouble ==
  [][FinishStep =>
       Credited = POINTS[current_attack'] * (IF DoubleWin THEN 2 ELSE 1)]_vars

\* C17 amended: a finishing step credits 100 when the last tile of the
\* winner's concealed pile and the winning attack tile are an 8 and a 9,
\* and the base value of the winning attack tile otherwise, doubled exactly
\* when the latest concealment of the round is the winner's and has the rank
\* of the winning tile.
C17_PairOrBaseOrDouble ==
  [][FinishStep =>
       /\ winner' = turn
       /\ Credited =
            (IF PairedKings THEN 100 ELSE POINTS[current_attack'])
              * (IF DoubleWin THEN 2 ELSE 1)]_vars

\* C17 witness: the round was finished with the rank of the winner's own
\* latest concealment, and the winner's team holds the doubled base value.
C17_DoubledWin ==
  /\ finished /\ ~raised /\ winner # NoSeat
  /\ attacker = winner /\ hands[winner] = <<>> /\ current_attack # NoTile
  /\ last_block_player = winner /\ last_block = current_attack
  /\ team_score[TeamOf(winner)] = 2 * POINTS[current_attack]

\* C18: a finishing step in which the last tile of the winner's concealed
\* pile and the winning attack tile are an 8 and a 9 credits exactly 100.
C18_PairedKingsScore100 ==
  [][(FinishStep /\ PairedKings) => Credited = 100]_vars

\* C18 witness: the round was finished with one king over the other king
\* concealed last by the winner, and the winner's team holds 100.
C18_WonWithBothKings ==
  /\ finished /\ ~raised /\ winner # NoSeat
  /\ attacker = winner /\ hands[winner] = <<>>
  /\ face_down_hidden[winner] # <<>>
  /\ {face_down_hidden[winner][Len(face_down_hidden[winner])],
      current_attack} = {8, 9}
  /\ team_score[TeamOf(winner)] = 100

\* C19: team_score is zero for both teams while the round is unfinished; a
\* finishing step adds the score (100 for paired kings, else the base value,
\* doubled for a double win) to the total of the winner's team and leaves
\* the other team's total unchanged; no other step changes team_score.
C19_TeamScore ==
  /\ [](~finished => team_score = [t \in {"AC", "BD"} |-> 0])
  /\ [][IF FinishStep
          THEN team_score' =
                 [team_score EXCEPT ![TeamOf(turn)] =
                    @ + (IF PairedKings THEN 100 ELSE POINTS[current_attack'])
                          * (IF DoubleWin THEN 2 ELSE 1)]
          ELSE team_score' = team_score]_vars

\* C19 witness: the round is finished, the winner's team has points and
\* the other team has none.
C19_WinnerTeamOnly ==
  /\ finished /\ ~raised /\ winner # NoSeat
  /\ team_score[TeamOf(winner)] > 0
  /\ \A t \in {"AC", "BD"} \ {TeamOf(winner)} : team_score[t] = 0

\* the hand h with its tiles rearranged by the permutation f of its indices
Rearranged(h, f) == [i \in 1 .. Len(h) |-> h[f[i]]]

\* the hand h backwards
Reversed(h) == [i \in 1 .. Len(h) |-> h[Len(h) + 1 - i]]

\* position of a move in the canonical order: pass first, then by block
\* rank, then by attack rank
MoveKey(m) == (IF m[1] = "pass" THEN 0 ELSE 100) + 10 * m[2] + m[3]

\* C20: legal_actions gives the same sequence for a round whose fields are
\* equal and whose hands hold the same tiles in another order, and the
\* sequence is in canonical order without repetition: pass first, then
\* ascending block rank, then ascending attack rank.
C20_CanonicalMoveList ==
  \A p \in Seats :
    LET la == legal_actions(State, p)
    IN  /\ \A f \in Permutations(1 .. Len(hands[p])) :
             legal_actions(
               [State EXCEPT !.hands =
                  [q \in Seats |->
                     IF q = p THEN Rearranged(hands[p], f)
                     ELSE Reversed(hands[q])]], p) = la
        /\ \A i \in 1 .. Len(la) :
             \A j \in 1 .. Len(la) :
               i < j => MoveKey(la[i]) < MoveKey(la[j])

\* C20 witness: in an unfinished round, after a move, the seat to move
\* holds its tiles out of ascending order and has three or more legal moves.
C20_UnsortedHandManyMoves ==
  /\ ~finished /\ moves > 0
  /\ Len(legal_actions(State, turn)) >= 3
  /\ \E i \in 1 .. Len(hands[turn]) :
       \E j \in 1 .. Len(hands[turn]) :
         i < j /\ hands[turn][i] > hands[turn][j]

\* the receive moves the rules give the seat to move: one for each rank it
\* holds that equals the attack or is a king against an attack above 2
ReceivesByRule ==
  { <<"receive", b, NoTile>> : b \in
      { t \in Tiles :
          /\ Has(hands[turn], t)
          /\ \/ t = current_attack
             \/ t \in {8, 9} /\ current_attack \notin {1, 2} } }

\* C21 as stated: in receive phase with an attack on the table,
\* legal_actions of the seat to move is one pass followed by exactly one
\* receive for each rank of ReceivesByRule.
C21_ReceiveList ==
  (phase = "receive" /\ current_attack # NoTile) =>
    LET la == legal_actions(State, turn)
    IN  /\ Len(la) = 1 + Cardinality(ReceivesByRule)
        /\ la[1] = <<"pass", NoTile, NoTile>>
        /\ { la[i] : i \in 2 .. Len(la) } = ReceivesByRule

\* C21 amended: the same in an unfinished round; in a finished round, which
\* is left in receive phase with the winning attack on the table,
\* legal_actions is empty.
C21_ReceiveListUnfinished ==
  /\ ~finished => C21_ReceiveList
  /\ finished => legal_actions(State, turn) = <<>>

\* C21 witness: in an unfinished round the seat to move holds two or more
\* copies of the rank of the attack on the table.
C21_TwoCopiesOfAttack ==
  /\ ~finished /\ phase = "receive" /\ current_attack # NoTile
  /\ Count(hands[turn], current_attack) >= 2

\* a cover is required of the seat to move: the first move of the round, or
\* the turn is back at the attacker with the attack still on the table
CoverRequired ==
  /\ ~finished /\ phase = "attack"
  /\ \/ attacker = NoSeat /\ current_attack = NoTile
     \/ attacker = turn /\ current_attack # NoTile

\* the cover-then-attack moves the rules give the seat to move
CoversByRule ==
  { <<"attack_after_block", b, a>> : <<b, a>> \in
      { pr \in Tiles \X Tiles :
          /\ Has(hands[turn], pr[1]) /\ Has(hands[turn], pr[2])
          /\ pr[1] # pr[2] \/ Count(hands[turn], pr[1]) >= 2
          /\ \/ pr[2] \in 1 .. 7
             \/ had_both_kings[turn]
             \/ king_block_used > 0
             \/ Len(hands[turn]) = 2 } }

\* C22: when a cover is required in an unfinished round, legal_actions of
\* the seat to move lists exactly the moves of CoversByRule, each once; and
\* a cover-then-attack with the same rank twice is rejected when the seat to
\* move holds a single copy of it.
C22_CoverList ==
  /\ CoverRequired =>
       LET la == legal_actions(State, turn)
       IN  /\ Range(la) = CoversByRule
           /\ Len(la) = Cardinality(CoversByRule)
  /\ \A b \in Tiles :
       Count(hands[turn], b) = 1 =>
         apply_attack_after_block(State, turn, b, b).raised

\* C22 witness: after some move a cover is required of a seat that holds a
\* single copy of one rank and two or more copies of another.
C22_CoverWithPairAndSingle ==
  /\ CoverRequired /\ moves > 0
  /\ \E t \in Tiles : Count(hands[turn], t) = 1
  /\ \E t \in Tiles : Count(hands[turn], t) >= 2

\* C24 as stated: a round on which no move has been applied yet has phase
\* attack, turn = dealer, no attacker, no attack on the table, empty
\* concealed piles and is unfinished; legal_actions of the dealer is
\* non-empty and lists only attack_after_block moves, legal_actions of the
\* other seats is empty, and the only calls accepted are cover-then-attacks
\* by the dealer.
C24_FreshRound ==
  moves = 0 =>
    LET dealer == Deals[deal].dealer
    IN  /\ phase = "attack" /\ turn = dealer
        /\ attacker = NoSeat /\ current_attack = NoTile
        /\ \A p \in Seats : face_down_hidden[p] = <<>>
        /\ ~finished
        /\ legal_actions(State, dealer) # <<>>
        /\ \A m \in Range(legal_actions(State, dealer)) :
             m[1] = "attack_after_block"
        /\ \A p \in Seats \ {dealer} : legal_actions(State, p) = <<>>
        /\ \A p \in Seats :
             \A m \in AllMoves :
               ~_apply_action(State, p, m).raised =>
                 p = dealer /\ m[1] = "attack_after_block"

\* an accepted call
Applied == moves' = moves + 1

\* C25 as stated: no hand ever grows, and every applied move shrinks the
\* hand of the seat that moves by exactly one or exactly two tiles.
C25_EveryMoveShrinks ==
  [][/\ \A p \in Seats : Len(hands'[p]) <= Len(hands[p])
     /\ Applied =>
          Len(hands[turn]) - Len(hands'[turn]) \in {1, 2}]_vars

\* C25 amended: no hand ever grows; an applied Pass leaves every hand as it
\* is, an applied Receive or bare Attack takes exactly one tile from the hand
\* of the seat that moves, an applied CoverThenAttack exactly two; the hands
\* of the other seats, and every hand in a rejected call, are unchanged.
C25_MovesShrinkByKind ==
  [][/\ \A p \in Seats \ {turn} : hands'[p] = hands[p]
     /\ ~Applied => hands' = hands
     /\ Applied =>
          Len(hands[turn]) - Len(hands'[turn]) =
            (IF phase = "receive"
               THEN (IF current_attack' = NoTile THEN 1 ELSE 0)
               ELSE (IF face_down_hidden' # face_down_hidden
                       THEN 2 ELSE 1))]_vars

\* C25 witness: in an unfinished round a seat has passed: the turn is two
\* or three seats past the attacker with the attack still on the table.
C25_AfterPass ==
  /\ ~finished /\ ~raised /\ phase = "receive" /\ current_attack # NoTile
  /\ attacker # NoSeat
  /\ turn # attacker /\ turn # next_player(attacker)

\* the hands and dealer are not a deal of the game: 32 tiles, 8 a seat, at
\* most one 8 and one 9
Malformed(h) ==
  \/ Len(h["A"]) + Len(h["B"]) + Len(h["C"]) + Len(h["D"]) # 32
  \/ \E p \in Seats : Len(h[p]) # 8
  \/ \E k \in {8, 9} :
       Count(h["A"], k) + Count(h["B"], k)
         + Count(h["C"], k) + Count(h["D"], k) > 1

\* C23 as stated: a round constructed from a malformed deal is not
\* playable: no call is ever accepted on it.
C23_MalformedDealRejected ==
  Malformed(HandsOf(deal)) =>
    /\ moves = 0
    /\ \A p \in Seats :
         \A m \in AllMoves : _apply_action(State, p, m).raised

\* the seat after p, spelled out
SeatAfter(p) ==
  CASE p = "A" -> "B" [] p = "B" -> "C" [] p = "C" -> "D" [] OTHER -> "A"

\* the effect the claim gives an accepted attack of seat p with tile a that
\* produced the round r from the current one
AttackEffect(r, p, a) ==
  /\ r.current_attack = a /\ r.attacker = p
  /\ r.phase = "receive" /\ r.turn = SeatAfter(p)
  /\ IF r.hands[p] = <<>>
       THEN r.finished /\ r.winner = p
       ELSE /\ r.finished = finished /\ r.winner = winner
            /\ r.team_score = team_score

\* C26: under legal play, every accepted bare Attack or CoverThenAttack has
\* the effect AttackEffect; and the round is finished exactly when there is
\* a winner whose hand is empty, and then the winner is the attacker, the
\* turn is at the seat after the winner in receive phase, and the attack on
\* the table is the tile the winner's team was credited for.
C26_AttackAndFinish ==
  /\ \A p \in Seats :
       \A a \in Tiles :
         /\ LET r == apply_attack(State, p, a)
            IN  ~r.raised => AttackEffect(r, p, a)
         /\ \A b \in Tiles :
              LET r == apply_attack_after_block(State, p, b, a)
              IN  ~r.raised => AttackEffect(r, p, a)
  /\ finished <=> (winner # NoSeat /\ hands[winner] = <<>>)
  /\ finished =>
       /\ current_attack # NoTile /\ attacker = winner
       /\ phase = "receive" /\ turn = SeatAfter(winner)
       /\ team_score[TeamOf(winner)] =
            (IF /\ face_down_hidden[winner] # <<>>
                /\ {face_down_hidden[winner][Len(face_down_hidden[winner])],
                    current_attack} = {8, 9}
               THEN 100 ELSE POINTS[current_attack])
              * (IF last_block_player = winner /\ last_block = current_attack
                   THEN 2 ELSE 1)

\* C26 witness: legal play has finished a round whose winner concealed two
\* or more tiles, so it attacked, was passed around and attacked again.
C26_WonAfterWrapAround ==
  /\ finished /\ ~raised /\ winner # NoSeat
  /\ hands[winner] = <<>>
  /\ Len(face_down_hidden[winner]) >= 2

\* C27: in both drivers every applied move is followed by exactly one
\* notification to each registered agent, carrying the seat and the action
\* of the move, given after the round changed and before the next move is
\* applied; a rejected move is not notified.  So each agent's inbox is the
\* list of the moves applied, what the agent last found in the round is
\* the round as it is now, and a seat without an agent is told nothing.
C27_NotifiedOncePerMove ==
  /\ Len(applied) = moves
  /\ \A a \in agents :
       /\ Len(inbox[a]) = Len(applied)
       /\ \A i \in 1 .. Len(applied) :
            /\ inbox[a][i].player = applied[i][1]
            /\ inbox[a][i].action = applied[i][2]
       /\ inbox[a] # <<>> =>
            inbox[a][Len(inbox[a])].seen = <<turn, phase>>
  /\ \A a \in Seats \ agents : inbox[a] = <<>>

\* the backend refused a move after the agents had been told of two moves
C27_RefusedAfterNotified ==
  /\ driver = "http"
  /\ raised
  /\ Len(applied) >= 2
  /\ \A a \in agents : Len(inbox[a]) = Len(applied)

\* request r is inside the with block of the handler
InSection(r) == pc[r] \in {"locked", "advance", "exit"}

\* at most one request of a game is inside the with block, and it holds
\* the lock of its game
OneInSection ==
  \A r \in Reqs :
    InSection(r) =>
      /\ lock[LockOf(GameOf(r))] = r
      /\ \A q \in Reqs \ {r} : GameOf(q) = GameOf(r) => ~InSection(q)

\* a step that calls the round (turn check passed and mutator called, or a
\* CPU move) is taken by the request that holds the lock of the game, which
\* keeps it, while no other request of the game is inside the with block
MovesUnderLock ==
  (driver = "http" /\ <<State, applied>>' # <<State, applied>>) =>
    \E r \in Reqs :
      /\ GameOf(r) = "g1"
      /\ pc[r] \in {"locked", "advance"}
      /\ lock[LockOf("g1")] = r
      /\ lock'[LockOf("g1")] = r
      /\ \A q \in Reqs \ {r} : GameOf(q) = "g1" => ~InSection(q)

\* a waiting request enters as soon as no request of its own game is
\* inside the with block, whatever the requests of other games do
OtherGamesDoNotBlock ==
  \A r \in Reqs :
    (/\ driver = "http"
     /\ pc[r] = "wait"
     /\ \A q \in Reqs : GameOf(q) = GameOf(r) => ~InSection(q))
      => ENABLED Acquire(r)

\* C28 as stated: requests to step on one game are serialized (turn check,
\* move, log and CPU moves are one critical section under the lock of the
\* game, so the moves of two requests never interleave), of two requests
\* sent for the same turn at most one is applied, and requests on
\* different games do not block each other.
C28_Serialized ==
  /\ []OneInSection
  /\ []OtherGamesDoNotBlock
  /\ [](\A i, j \in 1 .. Len(hits) : i # j => hits[i][1] # hits[j][1])
  /\ [][MovesUnderLock]_vars

\* C28 amended: requests to step on one game are serialized as above and
\* requests on different games do not block each other; of two requests
\* sent for the same turn at most one is applied to that turn, and the
\* other is refused or, when after the first one's move and CPU moves it
\* is the seat's turn again and the mutator accepts the move, applied to
\* that later turn.
C28_SerializedLaterTurn ==
  /\ []OneInSection
  /\ []OtherGamesDoNotBlock
  /\ [](\A i, j \in 1 .. Len(hits) :
          i < j => /\ hits[i][2] < hits[j][2]
                   /\ hits[i][1] <= hits[i][2]
                   /\ hits[i][1] = hits[j][1] => hits[j][2] > hits[j][1])
  /\ [][MovesUnderLock]_vars

\* two requests sent for the same turn were both applied, the second to a
\* later turn
C28_BothApplied ==
  \E i, j \in 1 .. Len(hits) :
    i < j /\ hits[i][1] = hits[j][1] /\ hits[i][2] < hits[j][2]

\* ---- C29 ----
\* what the agent of seat p returns for the legal moves of p in the
\* current round
PolicyChoice(p) ==
  select_action(track[p], p, State, p, legal_actions(State, p))

AgentMoved ==
  /\ Len(applied') = Len(applied) + 1
  /\ applied'[Len(applied')][1] \in agents

\* the round after such a step is the round before it with the chosen move
\* applied by the mutator, and nothing else
OnlyTheMoveApplied ==
  AgentMoved =>
    State' = _apply_action(State, applied'[Len(applied')][1],
                           applied'[Len(applied')][2])

\* C30: the look-ahead of the policy never changes the live round.  In
\* every reachable state of both drivers, for every seat that has an agent
\* and a non-empty list of legal moves, the round passed to select_action
\* has, when select_action returns, the value in every field that it had at
\* the call; and a step in which an agent's move is played (select_action,
\* the mutator, then on_public_action of every agent) leaves the round
\* exactly as the mutator made it.
C30_LookAheadOnCopies ==
  /\ [](\A p \in agents :
          legal_actions(State, p) # <<>> => PolicyChoice(p).state = State)
  /\ [][OnlyTheMoveApplied]_vars

\* C30 witness: an agent has moved, and an agent is to move whose look-ahead
\* finds a trial move that ends the round on the copy, while the live round
\* is unfinished
C30_TrialWinsOnCopy ==
  /\ applied # <<>>
  /\ applied[Len(applied)][1] \in agents
  /\ ~finished
  /\ ~raised
  /\ turn \in agents
  /\ WinNowScan(State, turn, legal_actions(State, turn), 1, <<>>).wins # <<>>

\* ---- C33 ----
\* C33: under legal play the phase is receive only while an attack is on
\* the table.  In every unfinished state reached from a deal by moves taken
\* from legal_actions of the seat to move, phase = "receive" implies that
\* current_attack is a tile, attacker is a seat and the seat to move is not
\* the attacker; so legal_actions never takes its branch for a receive
\* phase without current_attack.
C33_ReceiveHasAttack ==
  (~finished /\ phase = "receive") =>
    /\ current_attack # NoTile
    /\ attacker # NoSeat
    /\ turn # attacker

\* C33 witness: two seats have passed on an attack and the last seat before
\* the attacker is to answer it
C33_LastSeatToAnswer ==
  /\ ~finished /\ ~raised /\ phase = "receive"
  /\ moves >= 3
  /\ attacker # NoSeat
  /\ next_player(turn) = attacker

SeatsToAnswer ==
  IF phase = "receive" /\ attacker # NoSeat
    THEN (SeatIndex(attacker) - SeatIndex(turn)) % 4
    ELSE 0

\* tiles still held by the four seats
TilesHeld ==
  Len(hands["A"]) + Len(hands["B"]) + Len(hands["C"]) + Len(hands["D"])

\* what is left to play: four for every tile held, plus the passes the
\* attack on the table can still draw
Potential == 4 * TilesHeld + SeatsToAnswer

JustReceived(p) ==
  /\ ~finished
  /\ phase = "attack" /\ turn = p /\ attacker = p /\ current_attack = NoTile

\* the step is a receive: the attack on the table is taken by the seat to
\* move, which becomes the attacker
ReceiveStep ==
  /\ phase = "receive" /\ phase' = "attack" /\ current_attack' = NoTile

\* the step is an attack without a cover / with a cover: one tile or two
\* leave the hand of the seat to move
BareAttackStep ==
  /\ phase = "attack" /\ Len(hands'[turn]) = Len(hands[turn]) - 1

CoverThenAttackStep ==
  /\ phase = "attack" /\ Len(hands'[turn]) = Len(hands[turn]) - 2

\* C36: hand-size parity under legal play.  Every hand holds an even number
\* of tiles, except that of the seat that has just received and must attack
\* without a cover, which holds an odd number.  A receive never empties a
\* hand, an attack without a cover is made from an odd number of tiles, an
\* attack with a cover from an even number of at least two, and no seat of an
\* unfinished round has an empty hand.
C36_HandParity ==
  /\ [](\A p \in Seats : (Len(hands[p]) % 2 = 1) <=> JustReceived(p))
  /\ [](~finished => \A p \in Seats : Len(hands[p]) > 0)
  /\ [][ReceiveStep => Len(hands'[turn]) > 0]_vars
  /\ [][BareAttackStep => Len(hands[turn]) % 2 = 1]_vars
  /\ [][CoverThenAttackStep =>
          (Len(hands[turn]) % 2 = 0 /\ Len(hands[turn]) >= 2)]_vars
  /\ [][phase = "attack" => (BareAttackStep \/ CoverThenAttackStep)]_vars

\* C36 witness: a seat has received with its last tile but one and is left
\* with a single tile for the attack, next to seats holding two and four
C36_OneTileAfterReceive ==
  /\ \E p \in Seats : JustReceived(p) /\ Len(hands[p]) = 1
  /\ \E q \in Seats : Len(hands[q]) = 2
  /\ \E q \in Seats : Len(hands[q]) = 4

\* ---- C37 ----
\* the step leaves the hand and the concealed pile of every seat but p as
\* they were
OthersKept(p) ==
  \A q \in Seats \ {p} :
    /\ hands'[q] = hands[q]
    /\ face_down_hidden'[q] = face_down_hidden[q]

\* the step leaves the concealed piles and the record of the last cover as
\* they were
CoversKept ==
  UNCHANGED <<face_down_hidden, last_block, last_block_player>>

\* what each call may change, for a call by seat p
\* (each is "the step is not that call, or it keeps within the frame",
\* with the frame first)
PassFrame(p) ==
  \/ UNCHANGED <<hands, had_both_kings, face_down_hidden, current_attack,
                 attacker, last_block, last_block_player, king_block_used,
                 finished, winner, team_score>>
  \/ ~Commit(apply_pass(State, p))

ReceiveFrame(p) ==
  \/ OthersKept(p) /\ CoversKept
  \/ \A b \in Tiles : ~Commit(apply_receive(State, p, b))

AttackFrame(p) ==
  \/ OthersKept(p) /\ CoversKept
  \/ \A a \in Tiles : ~Commit(apply_attack(State, p, a))

CoverAppended(p, b) ==
  /\ OthersKept(p)
  /\ IF raised'
       THEN CoversKept
       ELSE /\ face_down_hidden'[p] = Append(face_down_hidden[p], b)
            /\ last_block' = b
            /\ last_block_player' = p

AttackAfterBlockFrame(p) ==
  \A b \in Tiles :
    \/ CoverAppended(p, b)
    \/ \A a \in Tiles : ~Commit(apply_attack_after_block(State, p, b, a))

\* C37: frame.  A call by seat p changes no other seat's hand or concealed
\* pile.  A pass changes only turn and phase.  A receive and an attack
\* without a cover leave every concealed pile, last_block and
\* last_block_player as they were.  An attack with a cover, and no other
\* call, appends to a concealed pile: the cover tile, to the pile of the seat
\* that moves, and last_block and last_block_player become that tile and
\* that seat.
\* (a call that raised and left every field as it was is within every frame)
C37_Frame ==
  [][\/ raised' /\ UNCHANGED <<hands, had_both_kings, face_down_hidden,
                                current_attack, attacker, phase, turn,
                                last_block, last_block_player,
                                king_block_used, finished, winner,
                                team_score>>
     \/ \A p \in Seats :
          /\ PassFrame(p) /\ ReceiveFrame(p)
          /\ AttackFrame(p) /\ AttackAfterBlockFrame(p)]_vars

\* C37 witness: a seat has covered and attacked twice; its pile holds its
\* two covers in order, the second is the last cover recorded, and no other
\* seat has a tile less or a pile
C37_SecondCoverOnPile ==
  \E p \in Seats :
    /\ ~raised
    /\ Len(face_down_hidden[p]) = 2
    /\ last_block_player = p /\ last_block = face_down_hidden[p][2]
    /\ \A q \in Seats \ {p} :
         /\ hands[q] = HandsOf(deal)[q]
         /\ face_down_hidden[q] = <<>>

\* ---- C40 ----
\* One iteration of the loop of create_random_hands_no_five_shi: a fresh
\* shuffle is dealt, kept as last_hands, and returned if it passes the test.
Retry ==
  /\ dealt = NoDeal
  /\ attempt < MaxRetry
  /\ \E d \in Shuffles :
       LET h == _normalize_hands(create_random_hands(d))
       IN  /\ last_hands' = h
           /\ dealt' = IF FewShi(h) THEN h ELSE NoDeal
  /\ attempt' = attempt + 1
  /\ UNCHANGED <<rnd, plays, shown, seat_token, join, writes>>

\* the loop has run max_retry times without a return: return last_hands
GiveUp ==
  /\ dealt = NoDeal
  /\ attempt = MaxRetry
  /\ dealt' = last_hands
  /\ UNCHANGED <<rnd, plays, shown, seat_token, join, attempt,
                 last_hands, writes>>

\* a call of create_random_hands_no_five_shi, before any round is played
InitDeal ==
  /\ Construct(NewRound(HandsOf(1), Deals[1].dealer))
  /\ moves = 0
  /\ deal = 1
  /\ NoDriver

NextDeal == Retry \/ GiveUp

SpecDeal == InitDeal /\ [][NextDeal]_vars

\* the tiles of the four hands of h, each of the size dealt, are those of
\* the deck
DealsTheDeck(h) ==
  /\ \A p \in Seats : Len(h[p]) = HandSize
  /\ \A x \in Range(deck) \union Tiles :
       Count(h["A"], x) + Count(h["B"], x) + Count(h["C"], x)
         + Count(h["D"], x) = Count(deck, x)

\* C40: every deal of create_random_hands is the deck, dealt as four hands
\* of the same size that share no tile of it, and the deal that
\* create_random_hands_no_five_shi returns gives no seat more tiles of
\* rank 1 than allowed, whatever the shuffles were, also when every one of
\* the max_retry shuffles was refused.
C40_DeckDealtFewShi ==
  /\ attempt > 0 => DealsTheDeck(last_hands)
  /\ dealt # NoDeal => (DealsTheDeck(dealt) /\ FewShi(dealt))

\* ---- C39 ----
\* POST /games/{gid}/join up to the test of line 374: the request is refused
\* for a seat that is not a human seat (400) or that has a token (409),
\* else it goes on to take the seat.  Requests run in threads of their own
\* and the handler takes no lock, so other requests can run in between.
JoinArrive(j) ==
  /\ join[j].pc = "idle"
  /\ \E seat \in Seats :
       join' = [join EXCEPT ![j] =
                  IF seat \notin human_seats
                    THEN [pc |-> "done", seat |-> seat, status |-> 400,
                          token |-> NoToken]
                  ELSE IF seat_token[seat] # NoToken
                    THEN [pc |-> "done", seat |-> seat, status |-> 409,
                          token |-> NoToken]
                  ELSE [pc |-> "checked", seat |-> seat, status |-> 0,
                        token |-> NoToken]]
  /\ UNCHANGED <<rnd, plays, attempt, last_hands, dealt, seat_token, shown,
                 writes>>

\* lines 377-383: the request makes its token, stores it for the seat,
\* writes the log and answers with the token
JoinTake(j) ==
  /\ join[j].pc = "checked"
  /\ seat_token' = [seat_token EXCEPT ![join[j].seat] = j]
  /\ log' = Append(log, LogLine("JOIN", join[j].seat, NoTile, NoTile, FALSE))
  /\ join' = [join EXCEPT ![j] = [pc |-> "done", seat |-> @.seat,
                                  status |-> 200, token |-> j]]
  /\ UNCHANGED <<rnd, plays, attempt, last_hands, dealt, board, writes>>

JoinCheck == \E j \in Joins : JoinArrive(j)

JoinSeat == \E j \in Joins : JoinTake(j)

\* a game made by create_game: human seats and CPU seats, nobody has joined
InitJoin ==
  /\ Construct(NewRound(HandsOf(1), Deals[1].dealer))
  /\ moves = 0
  /\ deal = 1
  /\ driver = "http" /\ agents \in HttpLineups
  /\ track = [a \in Seats |-> NoTrack]
  /\ inbox = [a \in Seats |-> <<>>]
  /\ applied = <<>>
  /\ pc = [r \in Reqs |-> "idle"]
  /\ req = [r \in Reqs |-> <<NoSeat, <<>>, 0>>]
  /\ lock = [g \in Games |-> NoReq]
  /\ hits = <<>>
  /\ NoDealing
  /\ NoWrites
  /\ NoJoins
  /\ log = NewLog(turn)
  /\ board = _new_board_snapshot

NextJoin == JoinCheck \/ JoinSeat

SpecJoin == InitJoin /\ [][NextJoin]_vars

\* the join requests that were answered with a token for seat s
Winners(s) == {j \in Joins : join[j].status = 200 /\ join[j].seat = s}

\* C39: each human seat is taken by at most one join.  However the join
\* requests for a seat interleave, one of them is answered with a token and
\* every other one with 409, and the token stored for a seat is never
\* replaced by another.
C39_OneJoinPerSeat ==
  /\ [](\A s \in Seats : Cardinality(Winners(s)) <= 1)
  /\ [](\A j \in Joins :
          (join[j].pc = "done" /\ join[j].seat \in human_seats
             /\ Winners(join[j].seat) # {j}) => join[j].status = 409)
  /\ [][\A s \in Seats :
          seat_token[s] # NoToken => seat_token'[s] = seat_token[s]]_vars

\* ---- C32 ----
\* what a request can carry as token and as admin parameter: nothing, a
\* token of the game, or something else
TokensSent == {NoToken, "guess"} \union {JoinedTokens[s] : s \in Seats}

AdminsSent == {NoToken, "guess", admin_token}

\* C32: the tiles of the hand of seat s are shown only to seat s.  The
\* answer to a get_state request that carries neither the token of seat s
\* nor a valid admin reveal shows of the hand of s at most the number of
\* its tiles, whatever seat the request names.
C32_OwnHandOnly ==
  driver = "http" =>
    \A s \in Seats, seat \in Seats, token \in TokensSent,
       admin \in AdminsSent, reveal_hands \in {0, 1},
       allow_reveal \in BOOLEAN :
      LET ans == get_state(State, seat_token, log, board, allow_reveal,
                           seat, token, reveal_hands, admin)
      IN  (/\ ~(token # NoToken /\ token = seat_token[s])
           /\ ~ans.admin_reveal)
            => ~ans.view.hands[s].list

\* ---- C31 ----
\* the answer seat v gets from get_state, sent with its own token and no
\* admin reveal, once the handler has applied the move m of seat p to the
\* round and written it on the board and into the log
ViewAfter(v, p, m) ==
  LET r == _apply_action(State, p, m)
  IN  get_state(r, seat_token, LogAfter(log, State, r, p, m),
                BoardAfter(board, State, r, p, m), TRUE,
                v, seat_token[v], 0, NoToken)

\* two moves of a seat that conceal a tile and attack with the same tile
SameButCover(m1, m2) ==
  /\ m1[1] = "attack_after_block" /\ m2[1] = "attack_after_block"
  /\ m1[3] = m2[3]

\* C31: the rank of a tile a seat conceals is not shown to another seat.
\* Whichever tile the seat to move conceals under the same attack, the
\* answer another seat v then gets for its view of the game, board and log
\* included, is the same.
C31_ConcealedRankUnseen ==
  (driver = "http" /\ ~finished) =>
    \A m1, m2 \in Range(legal_actions(State, turn)) :
      SameButCover(m1, m2) =>
        \A v \in Seats \ {turn} :
          ViewAfter(v, turn, m1) = ViewAfter(v, turn, m2)

\* ---- C38 ----
\* The assignments a mutator makes to the round s, in the order of its
\* statements, each as <<field, value>>.  The mutators are called with a
\* move that passes their checks.
\* the round s after the first k of the assignments ws
RECURSIVE Written(_, _, _)
Written(s, ws, k) ==
  IF k = 0 THEN s
  ELSE [Written(s, ws, k - 1) EXCEPT ![ws[k][1]] = ws[k][2]]

\* finish_round: lines 160-164, the score worked out on the round r that
\* the assignments of the attack have left
FinishWrites(r, player, attack) ==
  IF Len(r.hands[player]) # 0 THEN <<>>
  ELSE << <<"finished", TRUE>>, <<"winner", player>>,
          <<"team_score", finish_round(r, player, attack).team_score>> >>

\* the assignments ws of an attack on the round s, then those of
\* finish_round when they have emptied the hand
WithFinish(s, ws, player, attack) ==
  ws \o FinishWrites(Written(s, ws, Len(ws)), player, attack)

\* apply_pass: lines 147, 155, 156
PassWrites(s, player) ==
  IF s.attacker = NoSeat \/ next_player(player) # s.attacker
    THEN << <<"turn", next_player(player)>> >>
    ELSE << <<"turn", next_player(player)>>, <<"phase", "attack">>,
            <<"turn", s.attacker>> >>

\* apply_receive: lines 125, 129, 132, 135, 136, 137
ReceiveWrites(s, player, block) ==
  << <<"hands", [s.hands EXCEPT ![player] = Remove(@, block)]>> >>
  \o (IF block \in {8, 9}
        THEN << <<"king_block_used", s.king_block_used + 1>> >>
        ELSE <<>>)
  \o << <<"current_attack", NoTile>>, <<"attacker", player>>,
         <<"phase", "attack">>, <<"turn", player>> >>

\* apply_attack: lines 180, 182-185, 188-189
AttackWrites(s, player, attack) ==
  WithFinish(s,
    << <<"hands", [s.hands EXCEPT ![player] = Remove(@, attack)]>>,
       <<"current_attack", attack>>, <<"attacker", player>>,
       <<"turn", next_player(player)>>, <<"phase", "receive">> >>,
    player, attack)

\* apply_attack_after_block: lines 210-213, 218-222, 225-226
CoverWrites(s, player, block, attack) ==
  WithFinish(s,
    << <<"hands", [s.hands EXCEPT ![player] = Remove(@, block)]>>,
       <<"face_down_hidden",
         [s.face_down_hidden EXCEPT ![player] = Append(@, block)]>>,
       <<"last_block", block>>, <<"last_block_player", player>>,
       <<"hands",
         [s.hands EXCEPT ![player] = Remove(Remove(@, block), attack)]>>,
       <<"current_attack", attack>>, <<"attacker", player>>,
       <<"turn", next_player(player)>>, <<"phase", "receive">> >>,
    player, attack)

\* the assignments of the mutator that _apply_action calls
Writes(s, player, action) ==
  CASE action[1] = "pass" -> PassWrites(s, player)
    [] action[1] = "receive" -> ReceiveWrites(s, player, action[2])
    [] action[1] = "attack" -> AttackWrites(s, player, action[3])
    [] action[1] = "attack_after_block" ->
         CoverWrites(s, player, action[2], action[3])

\* the assignments of the move under way
Pending == Writes(before, doing[1], doing[2])

\* the fields of the round become those of the record r
Becomes(r) ==
  /\ hands' = r.hands
  /\ had_both_kings' = r.had_both_kings
  /\ face_down_hidden' = r.face_down_hidden
  /\ current_attack' = r.current_attack
  /\ attacker' = r.attacker
  /\ phase' = r.phase
  /\ turn' = r.turn
  /\ last_block' = r.last_block
  /\ last_block_player' = r.last_block_player
  /\ king_block_used' = r.king_block_used
  /\ finished' = r.finished
  /\ winner' = r.winner
  /\ team_score' = r.team_score
  /\ raised' = r.raised

\* POST /games/{gid}/step for the seat to move, with a move it was listed:
\* the handler has the lock, has passed its checks and calls the mutator
StepCall ==
  /\ doing = NoMove
  /\ ~finished
  /\ moves < MaxPlay
  /\ \E m \in Range(legal_actions(State, turn)) : doing' = <<turn, m>>
  /\ before' = State
  /\ stage' = 0
  /\ UNCHANGED <<rnd, plays, shown, attempt, last_hands, dealt, seat_token,
                 join>>

\* the mutator makes its next assignment
StepWrite ==
  /\ doing # NoMove
  /\ stage < Len(Pending)
  /\ stage' = stage + 1
  /\ Becomes(Written(before, Pending, stage + 1))
  /\ UNCHANGED <<moves, deal, plays, shown, attempt, last_hands, dealt,
                 seat_token, join, before, doing>>

\* the mutator has returned: the handler writes the move on the board and
\* into the log, and returns
StepReturn ==
  /\ doing # NoMove
  /\ stage = Len(Pending)
  /\ log' = LogAfter(log, before, State, doing[1], doing[2])
  /\ board' = BoardAfter(board, before, State, doing[1], doing[2])
  /\ moves' = moves + 1
  /\ doing' = NoMove
  /\ stage' = 0
  /\ UNCHANGED <<hands, had_both_kings, face_down_hidden, current_attack,
                 attacker, phase, turn, last_block, last_block_player,
                 king_block_used, finished, winner, team_score, raised,
                 deal, plays, attempt, last_hands, dealt, seat_token, join,
                 before>>

\* a game made by create_game with four human seats, who have joined
InitReads ==
  /\ \E n \in 1 .. NumDeals :
       /\ Construct(NewRound(HandsOf(n), Deals[n].dealer))
       /\ moves = 0
       /\ deal = n
  /\ driver = "http" /\ agents = {}
  /\ track = [a \in Seats |-> NoTrack]
  /\ inbox = [a \in Seats |-> <<>>]
  /\ applied = <<>>
  /\ pc = [r \in Reqs |-> "idle"]
  /\ req = [r \in Reqs |-> <<NoSeat, <<>>, 0>>]
  /\ lock = [g \in Games |-> NoReq]
  /\ hits = <<>>
  /\ NoDealing
  /\ NoWrites
  /\ join = [j \in Joins |-> NoJoin]
  /\ seat_token = JoinedTokens
  /\ log = NewLog(turn)
  /\ board = _new_board_snapshot

NextReads == StepCall \/ StepWrite \/ StepReturn

SpecReads == InitReads /\ [][NextReads]_vars

\* GET /games/{gid}/legal_actions for the round r, by a seat with its token
ListedFor(r, seat) ==
  IF r.finished \/ r.turn # seat THEN <<>> ELSE legal_actions(r, seat)

\* what seat v reads of the game when the round is r, the log lg and the
\* board bd: the answers of get_state and of get_legal_actions
Reads(r, lg, bd, v) ==
  <<get_state(r, seat_token, lg, bd, TRUE, v, seat_token[v], 0, NoToken),
    ListedFor(r, v)>>

\* the round the move under way leads to
Moved == _apply_action(before, doing[1], doing[2])

\* the assignments of a mutator, all made, give the round the mutator gives
WritesMakeTheMove ==
  (doing # NoMove /\ stage = Len(Pending)) => State = Moved

\* C38: a get_state or get_legal_actions request that runs while a step is
\* applying a move never reads a partly applied move: what it reads is what
\* it would have read before the move, or what it reads once the move is
\* applied whole, written on the board and logged.
C38_WholeMovesOnly ==
  doing # NoMove =>
    \A v \in Seats :
      \/ Reads(State, log, board, v) = Reads(before, log, board, v)
      \/ Reads(State, log, board, v) =
            Reads(Moved, LogAfter(log, before, Moved, doing[1], doing[2]),
                  BoardAfter(board, before, Moved, doing[1], doing[2]), v)
====
